---- MODULE Spec2Model ----
(***************************************************************************)
(* Cash-flow statement exporter (TCExports.Generator/python).              *)
(*                                                                         *)
(* Text (formula text, expression templates, column letters) is modelled   *)
(* as sequences of one-character strings.  Numeric cell values are         *)
(* integers: the exporter stores floats, the model keeps to values whose   *)
(* float arithmetic is exact.                                              *)
(***************************************************************************)
EXTENDS Integers, Sequences, FiniteSets, TLC

VARIABLES
    sb,                      \* SheetBuilder: [table, _row_index]
    appendCalls,             \* history: number of append_row calls made on sb
    observed,                \* the last value returned by current_row_index()
    totals_row_by_category,  \* Totals Registry: code -> 1-based row index
    registered,              \* history: sequence of <<code, row>> registry writes
    repo,                    \* repository query results of this build
    pc,                      \* position in the pipeline
    content,                 \* content.xml of the saved document
    diagnostics,             \* diagnostics reported through the repository
    colIndex, colName, colParsed,  \* Reference Algebra round trip
    called                   \* the last call of a helper function: [fn, args, result]

vars == <<sb, appendCalls, observed, totals_row_by_category, registered, repo, pc,
          content, diagnostics, colIndex, colName, colParsed, called>>

(***************************************************************************)
(* Bounds                                                                  *)
(***************************************************************************)
MaxColIndex == 18278
MaxRows == 5
MaxCats == 2
MaxCodes == 3
MonthCount == 2
MaxInjections == 2
MaxMonthCount == 12
MaxYearIndex == 8

(***************************************************************************)
(* Characters                                                              *)
(***************************************************************************)
UpperLetters == <<"A","B","C","D","E","F","G","H","I","J","K","L","M",
                  "N","O","P","Q","R","S","T","U","V","W","X","Y","Z">>
LowerLetters == <<"a","b","c","d","e","f","g","h","i","j","k","l","m",
                  "n","o","p","q","r","s","t","u","v","w","x","y","z">>
DigitChars == <<"0","1","2","3","4","5","6","7","8","9">>

AlphabetSize == 26
OrdA == 65

IsUpper(ch) == \E i \in 1..AlphabetSize : UpperLetters[i] = ch
IsLower(ch) == \E i \in 1..AlphabetSize : LowerLetters[i] = ch
IsLetter(ch) == IsUpper(ch) \/ IsLower(ch)
IsDigit(ch) == \E i \in 1..10 : DigitChars[i] = ch

\* chr(n) for the capital letters
Chr(n) == UpperLetters[n - OrdA + 1]
\* str.upper() on one character
Upper(ch) ==
    IF IsLower(ch)
    THEN UpperLetters[CHOOSE i \in 1..AlphabetSize : LowerLetters[i] = ch]
    ELSE ch
\* ord(ch) for a capital letter
Ord(ch) == OrdA - 1 + (CHOOSE i \in 1..AlphabetSize : UpperLetters[i] = ch)
DigitVal(ch) == (CHOOSE i \in 1..10 : DigitChars[i] = ch) - 1

\* str(n) for n >= 0
RECURSIVE IntToStr(_)
IntToStr(n) ==
    IF n < 10 THEN <<DigitChars[n + 1]>>
    ELSE IntToStr(n \div 10) \o <<DigitChars[(n % 10) + 1]>>

\* int(s) for a string of digits
RECURSIVE StrToInt(_)
StrToInt(s) ==
    IF Len(s) = 0 THEN 0
    ELSE 10 * StrToInt(SubSeq(s, 1, Len(s) - 1)) + DigitVal(s[Len(s)])

(***************************************************************************)
(* Reference Algebra                                                       *)
(***************************************************************************)
RECURSIVE ColLetterLoop(_, _)
ColLetterLoop(dividend, name) ==
    IF dividend > 0
    THEN LET modulo == (dividend - 1) % AlphabetSize
         IN  ColLetterLoop((dividend - modulo) \div AlphabetSize,
                           <<Chr(OrdA + modulo)>> \o name)
    ELSE name

RECURSIVE ColLetterLoopNoBorrow(_, _)
ColLetterLoopNoBorrow(dividend, name) ==
    IF dividend > 0
    THEN LET modulo == (dividend - 1) % AlphabetSize
         IN  ColLetterLoopNoBorrow(dividend \div AlphabetSize,
                                   <<Chr(OrdA + modulo)>> \o name)
    ELSE name

\* mutant of _col_letter: the quotient is taken without removing the digit
ColLetterNoBorrow(index_1based) == ColLetterLoopNoBorrow(index_1based, <<>>)

_col_letter(index_1based) == ColLetterLoop(index_1based, <<>>)

RECURSIVE ColLettersFold(_, _)
ColLettersFold(letters, idx) ==
    IF Len(letters) = 0 THEN idx
    ELSE ColLettersFold(Tail(letters),
                        idx * AlphabetSize + (Ord(Upper(Head(letters))) - OrdA + 1))

col_letters_to_index(letters) == ColLettersFold(letters, 0)

(***************************************************************************)
(* Sheet Builder                                                           *)
(***************************************************************************)
NewSheetBuilder == [table |-> <<>>, _row_index |-> 0]

\* mutant of append_row: the counter is not advanced for a row without cells
AppendRowSkipEmpty(s, row) ==
    [table |-> Append(s.table, row),
     _row_index |-> IF Len(row.cells) = 0 THEN s._row_index ELSE s._row_index + 1]

append_row(s, row) ==
    [table |-> Append(s.table, row), _row_index |-> s._row_index + 1]

current_row_index(s) == s._row_index

(***************************************************************************)
(* Strings                                                                 *)
(***************************************************************************)
IsSpace(ch) == ch = " "

StartsWithAt(s, p, i) ==
    /\ i + Len(p) - 1 <= Len(s)
    /\ \A k \in 1..Len(p) : s[i + k - 1] = p[k]
StartsWith(s, p) == StartsWithAt(s, p, 1)
EndsWith(s, p) == Len(p) <= Len(s) /\ StartsWithAt(s, p, Len(s) - Len(p) + 1)

\* str.find(sub, start): 1-based position of the first occurrence at or
\* after position i, 0 when there is none
RECURSIVE Find(_, _, _)
Find(s, sub, i) ==
    IF i + Len(sub) - 1 > Len(s) THEN 0
    ELSE IF StartsWithAt(s, sub, i) THEN i
    ELSE Find(s, sub, i + 1)
Contains(s, sub) == Find(s, sub, 1) > 0

\* str.replace(old, new): every non-overlapping occurrence, left to right
RECURSIVE ReplaceFrom(_, _, _, _)
ReplaceFrom(s, old, new, i) ==
    LET at == Find(s, old, i)
    IN  IF at = 0 THEN SubSeq(s, i, Len(s))
        ELSE SubSeq(s, i, at - 1) \o new \o ReplaceFrom(s, old, new, at + Len(old))
Replace(s, old, new) == IF Len(old) = 0 THEN s ELSE ReplaceFrom(s, old, new, 1)

RECURSIVE LStrip(_)
LStrip(s) == IF Len(s) > 0 /\ IsSpace(s[1]) THEN LStrip(Tail(s)) ELSE s
RECURSIVE RStrip(_)
RStrip(s) ==
    IF Len(s) > 0 /\ IsSpace(s[Len(s)]) THEN RStrip(SubSeq(s, 1, Len(s) - 1)) ELSE s
Strip(s) == RStrip(LStrip(s))

\* a sequence given by a function constructor, as a list of its elements
AsList(f) == f \o <<>>

UpperStr(s) == AsList([k \in 1..Len(s) |-> Upper(s[k])])

\* index just past the maximal run of letters (digits) starting at i
RECURSIVE LettersEnd(_, _)
LettersEnd(s, i) == IF i <= Len(s) /\ IsLetter(s[i]) THEN LettersEnd(s, i + 1) ELSE i
RECURSIVE DigitsEnd(_, _)
DigitsEnd(s, i) == IF i <= Len(s) /\ IsDigit(s[i]) THEN DigitsEnd(s, i + 1) ELSE i
RECURSIVE SpacesEnd(_, _)
SpacesEnd(s, i) == IF i <= Len(s) /\ IsSpace(s[i]) THEN SpacesEnd(s, i + 1) ELSE i
\* index just past an optional character ch at i
Opt(s, i, ch) == IF i <= Len(s) /\ s[i] = ch THEN i + 1 ELSE i

(***************************************************************************)
(* Style names and fixed texts                                             *)
(***************************************************************************)
S_CASH == <<"C","A","S","H">>
S_NUM == <<"N","U","M">>
S_PCT == <<"P","C","T">>
S_CELL == <<"_","C","E","L","L">>
S_POS_CELL == <<"_","P","O","S","_","C","E","L","L">>
S_NEG_CELL == <<"_","N","E","G","_","C","E","L","L">>
S_BORDERED == <<"_","B","O","R","D","E","R","E","D">>
S_POS == <<"_","P","O","S">>
S_NEG == <<"_","N","E","G">>
CASH0_CELL == S_CASH \o <<"0">> \o S_CELL
CASH0_POS_CELL == S_CASH \o <<"0">> \o S_POS_CELL
CASH0_NEG_CELL == S_CASH \o <<"0">> \o S_NEG_CELL
NUM0_CELL == S_NUM \o <<"0">> \o S_CELL
BoldHeaderStyle == <<"B","o","l","d","H","e","a","d","e","r","S","t","y","l","e">>
Row4HeaderCell == <<"R","o","w","4","H","e","a","d","e","r","C","e","l","l">>
TotalsColHeaderCell == <<"T","o","t","a","l","s","C","o","l","H","e","a","d","e","r","C","e","l","l">>
TotalsColDefaultCell == <<"T","o","t","a","l","s","C","o","l","D","e","f","a","u","l","t","C","e","l","l">>
ColBWidth == <<"C","o","l","B","W","i","d","t","h">>
OfPrefix == <<"o","f",":","=">>
NoText == <<>>
SomeText == <<"t">>

(***************************************************************************)
(* Cells                                                                   *)
(***************************************************************************)
\* a table:table-cell element: style-name, formula, value-type, value,
\* whether it has a text:p child (p) and whether that child has text, and
\* number-columns-repeated; tag "covered" is a table:covered-table-cell
BlankCell ==
    [p |-> FALSE, tag |-> "cell", style |-> <<>>, formula |-> <<>>, vtype |-> "",
     value |-> 0, text |-> FALSE, repeat |-> 1]
CoveredCell == [BlankCell EXCEPT !.tag = "covered"]

\* Cell(text=...) followed by set_attribute("table:style-name", style)
TextCellOf(style) == [BlankCell EXCEPT !.style = style, !.text = TRUE, !.p = TRUE]

NewRow(kind, code) == [cells |-> <<>>, kind |-> kind, code |-> code]
RowAppend(row, cell) == [row EXCEPT !.cells = Append(@, cell)]

add_text_cell(row, text, style) ==
    IF Strip(text) # <<>>
    THEN RowAppend(row, TextCellOf(style))
    ELSE RowAppend(row, BlankCell)

RECURSIVE AppendCovered(_, _)
AppendCovered(row, n) ==
    IF n <= 0 THEN row ELSE AppendCovered(RowAppend(row, CoveredCell), n - 1)

add_spanned_text_cell(row, text, span, style) ==
    AppendCovered(RowAppend(row, TextCellOf(style)), span - 1)

resolve_cash_style(base, is_negative) ==
    LET u == UpperStr(Strip(base))
    IN  IF ~StartsWith(u, S_CASH) \/ ~EndsWith(u, S_CELL)
        THEN (IF base # <<>> THEN base ELSE CASH0_CELL)
        ELSE IF EndsWith(u, S_POS_CELL) \/ EndsWith(u, S_NEG_CELL) THEN u
        ELSE Replace(u, S_CELL, IF is_negative THEN S_NEG_CELL ELSE S_POS_CELL)

\* the sign guessed from the formula text
FormulaLooksNegative(formula) ==
    LET f == UpperStr(Strip(formula))
    IN  \/ StartsWith(f, <<"-">>)
        \/ Contains(f, <<"*","-","1">>)
        \/ Contains(f, <<"=","-">>)

\* add_number_cell(row, value=value, style=style): a literal number
NumberCell(value, style) ==
    [p |-> FALSE, tag |-> "cell",
     style |-> resolve_cash_style(IF style # <<>> THEN style ELSE CASH0_CELL, value < 0),
     formula |-> <<>>, vtype |-> "float", value |-> value, text |-> FALSE,
     repeat |-> 1]

\* add_number_cell(row, formula=formula, style=style): placeholder value 0
FormulaCell(formula, style) ==
    [p |-> FALSE, tag |-> "cell",
     style |-> resolve_cash_style(IF style # <<>> THEN style ELSE CASH0_CELL,
                                  FormulaLooksNegative(formula)),
     formula |-> OfPrefix \o formula, vtype |-> "float", value |-> 0, text |-> FALSE,
     repeat |-> 1]

add_number_cell(row, value, style, formula) ==
    IF formula # <<>>
    THEN RowAppend(row, FormulaCell(formula, style))
    ELSE RowAppend(row, NumberCell(value, style))

\* the text of a range SUM([.<c1><r1>:.<c2><r2>])
SumText(c1, r1, c2, r2) ==
    <<"S","U","M","(","[",".">> \o c1 \o IntToStr(r1) \o <<":",".">> \o c2
        \o IntToStr(r2) \o <<"]",")">>
RefText(c, r) == c \o IntToStr(r)
Quoted(s) == <<"\"">> \o s \o <<"\"">>

(***************************************************************************)
(* Repository (query results of one build)                                 *)
(***************************************************************************)
Trade == 0
Tax == 1
Money == 2
Expense == 0
Income == 1
Neutral == 2
FirstPeriodCol == 4

\* cols_for_year_block(month_count, year_index) -> (start, totals)
cols_for_year_block(month_count, year_index) ==
    LET start == 3 + year_index * (month_count + 1)
        totals == start + month_count
    IN  <<start, totals>>

\* InvoiceValue of the j-th cash code of a category in month m of year y
BaseValue(j, m) ==
    CASE j = 1 -> 100 * m
      [] j = 2 -> 50
      [] j = 3 -> 10 * m - 410
      [] OTHER -> 7 * j

get_categories(r, cash_type) == r.categories[cash_type]

AllCategories(r) ==
    get_categories(r, Trade) \o get_categories(r, Money) \o get_categories(r, Tax)

\* rows of Cash.fnFlowCategoryCashCodes(category_code)
get_cash_codes(r, category_code) ==
    LET cats == AllCategories(r)
        hit == {i \in 1..Len(cats) : cats[i].CategoryCode = category_code}
    IN  IF hit = {} THEN <<>>
        ELSE LET cat == cats[CHOOSE i \in hit : \A k \in hit : i <= k]
             IN  AsList([j \in 1..cat.ncodes |->
                    [j |-> j, CashCode |-> cat.CategoryCode \o <<"c">> \o IntToStr(j),
                     scale |-> cat.scale]])

\* month number -> InvoiceValue, for one cash code and year (mm in the code)
get_cash_code_values(r, code, year_num) ==
    [m \in {r.months[i] : i \in 1..Len(r.months)} |->
        code.scale * year_num * BaseValue(code.j, m)]

(***************************************************************************)
(* Section renderers.  A build state b is [sb, reg, log]: the SheetBuilder,*)
(* the Totals Registry and the history of registry writes.                 *)
(***************************************************************************)
Put(b, row) == [b EXCEPT !.sb = append_row(b.sb, row)]

\* mutant of Register: the row index is taken after the spacer row
RegisterOffByOne(b, code, row_index) ==
    [b EXCEPT !.reg = [c \in DOMAIN b.reg \cup {code} |->
                          IF c = code THEN row_index + 1 ELSE b.reg[c]],
              !.log = Append(b.log, <<code, row_index + 1>>)]

\* totals_row_by_category[code] = row_index
Register(b, code, row_index) ==
    [b EXCEPT !.reg = [c \in DOMAIN b.reg \cup {code} |->
                          IF c = code THEN row_index ELSE b.reg[c]],
              !.log = Append(b.log, <<code, row_index>>)]

\* the three leading cells A, B, C of a labelled row: text, text, Cell()
LabelRow(kind, code, a, bText) ==
    RowAppend(add_text_cell(add_text_cell(NewRow(kind, code), a, <<>>), bText, <<>>),
              BlankCell)

\* A, B as text and C as the quoted-code marker formula
MarkerRow(kind, code, a, bText) ==
    add_number_cell(
        add_text_cell(add_text_cell(NewRow(kind, code), a, <<>>), bText, <<>>),
        0, <<>>, Quoted(code))

SpacerRow == NewRow("spacer", <<>>)

PeriodCols(years, months) == Len(years) * (Len(months) + 1)

\* month cells and the year total of one cash-code row, for years y_idx..
RECURSIVE CodeRowYears(_, _, _, _, _, _)
CodeRowYears(row, r, code, years, y_idx, cur_row_index) ==
    IF y_idx > Len(years) THEN row
    ELSE
      LET months == r.months
          mm == get_cash_code_values(r, code, years[y_idx])
          withMonths ==
              LET RECURSIVE Months(_, _)
                  Months(rw, k) ==
                      IF k > Len(months) THEN rw
                      ELSE Months(add_number_cell(rw, mm[months[k]], <<>>, <<>>), k + 1)
              IN  Months(row, 1)
          start_col == FirstPeriodCol + ((y_idx - 1) * (Len(months) + 1))
          end_col == start_col + Len(months) - 1
          withTotal ==
              add_number_cell(withMonths, 0, <<>>,
                  SumText(_col_letter(start_col), cur_row_index,
                          _col_letter(end_col), cur_row_index))
      IN  CodeRowYears(withTotal, r, code, years, y_idx + 1, cur_row_index)

RECURSIVE CodeRows(_, _, _, _)
CodeRows(b, r, codes, k) ==
    IF k > Len(codes) THEN b
    ELSE
      LET code == codes[k]
          cur_row_index == current_row_index(b.sb) + 1
          row == CodeRowYears(LabelRow("code", code.CashCode, code.CashCode, SomeText),
                              r, code, r.years, 1, cur_row_index)
      IN  CodeRows(Put(b, row), r, codes, k + 1)

\* the period cells of a Category Total row
CategoryTotalCells(row, total_cols, cur_row_index, ncodes, factor) ==
    LET RECURSIVE Cells(_, _)
        Cells(rw, k) ==
            IF k >= total_cols THEN rw
            ELSE LET col_letter == _col_letter(FirstPeriodCol + k)
                     first_code_row == cur_row_index - ncodes
                     last_code_row == cur_row_index - 1
                     base_sum == SumText(col_letter, first_code_row,
                                         col_letter, last_code_row)
                 IN  Cells(add_number_cell(rw, 0, <<>>,
                              IF factor = -1 THEN base_sum \o <<"*","-","1">>
                              ELSE base_sum), k + 1)
    IN  Cells(row, 0)

RECURSIVE CategoryBlocks(_, _, _, _)
CategoryBlocks(b, r, categories, k) ==
    IF k > Len(categories) THEN b
    ELSE
      LET cat == categories[k]
          b1 == Put(b, LabelRow("category", cat.CategoryCode, cat.Category, <<>>))
          codes == get_cash_codes(r, cat.CategoryCode)
          b2 == CodeRows(b1, r, codes, 1)
          cat_code == Strip(cat.CategoryCode)
          cur_row_index == current_row_index(b2.sb) + 1
          factor == IF cat.CashPolarityCode = Expense THEN -1 ELSE 1
          tot == CategoryTotalCells(MarkerRow("cattotal", cat_code, SomeText, <<>>),
                                    PeriodCols(r.years, r.months),
                                    cur_row_index, Len(codes), factor)
          b3 == Put(Put(b2, tot), SpacerRow)
          b4 == IF cat_code # <<>> THEN Register(b3, cat_code, cur_row_index) ELSE b3
      IN  CategoryBlocks(b4, r, categories, k + 1)

render_categories_and_summary(b, r, cash_type) ==
    CategoryBlocks(Put(b, SpacerRow), r, get_categories(r, cash_type), 1)

\* mutant of SummaryCells: the reference is to the row after the total row
SummaryCellsNextRow(row, firstCol, lastCol, target_row) ==
    LET RECURSIVE Cells(_, _)
        Cells(rw, col) ==
            IF col > lastCol THEN rw
            ELSE Cells(add_number_cell(rw, 0, CASH0_CELL,
                          RefText(_col_letter(col), target_row + 1)), col + 1)
    IN  Cells(row, firstCol)

\* the period cells of one summary row
SummaryCells(row, firstCol, lastCol, target_row) ==
    LET RECURSIVE Cells(_, _)
        Cells(rw, col) ==
            IF col > lastCol THEN rw
            ELSE Cells(IF target_row > 0
                       THEN add_number_cell(rw, 0, CASH0_CELL,
                                RefText(_col_letter(col), target_row))
                       ELSE add_number_cell(rw, 0, CASH0_CELL, <<>>), col + 1)
    IN  Cells(row, firstCol)

RECURSIVE SummaryRows(_, _, _, _, _)
SummaryRows(b, categories, k, firstCol, lastCol) ==
    IF k > Len(categories) THEN b
    ELSE
      LET cat == categories[k]
          code == Strip(cat.CategoryCode)
          target_row == IF code \in DOMAIN b.reg THEN b.reg[code] ELSE -1
          row == SummaryCells(LabelRow("summary", code, code, cat.Category),
                              firstCol, lastCol, target_row)
      IN  SummaryRows(Put(b, row), categories, k + 1, firstCol, lastCol)

\* the period cells of the Period Total row
PeriodTotalCells(row, firstCol, lastCol, start_row_index, end_row_index) ==
    LET RECURSIVE Cells(_, _)
        Cells(rw, col) ==
            IF col > lastCol THEN rw
            ELSE Cells(add_number_cell(rw, 0, CASH0_CELL,
                          SumText(_col_letter(col), start_row_index,
                                  _col_letter(col), end_row_index)), col + 1)
    IN  Cells(row, firstCol)

\* mutant of render_summary_after_categories: only an empty category list
\* renders nothing
SummaryOfOneCategory(b, r, categories) ==
    IF Len(categories) < 1 THEN b
    ELSE
      LET b1 == Put(b, LabelRow("summaryhdr", <<>>, SomeText, <<>>))
          firstCol == FirstPeriodCol
          lastCol == firstCol + PeriodCols(r.years, r.months) - 1
          start_row_index == current_row_index(b1.sb) + 1
          b2 == SummaryRows(b1, categories, 1, firstCol, lastCol)
          end_row_index == current_row_index(b2.sb)
          pr == PeriodTotalCells(LabelRow("periodtotal", <<>>, SomeText, <<>>),
                                 firstCol, lastCol, start_row_index, end_row_index)
      IN  Put(b2, pr)

render_summary_after_categories(b, r, categories) ==
    IF Len(categories) < 2 THEN b
    ELSE
      LET b1 == Put(b, LabelRow("summaryhdr", <<>>, SomeText, <<>>))
          firstCol == FirstPeriodCol
          lastCol == firstCol + PeriodCols(r.years, r.months) - 1
          start_row_index == current_row_index(b1.sb) + 1
          b2 == SummaryRows(b1, categories, 1, firstCol, lastCol)
          end_row_index == current_row_index(b2.sb)
          pr == PeriodTotalCells(LabelRow("periodtotal", <<>>, SomeText, <<>>),
                                 firstCol, lastCol, start_row_index, end_row_index)
      IN  Put(b2, pr)

\* repo.get_categories_by_type(cash_type, "Total") when the repository has it
get_categories_by_type(r, cash_type) ==
    IF r.has_categories_by_type THEN r.totals_by_type[cash_type] ELSE <<>>

RECURSIVE TotalsBlockRows(_, _, _)
TotalsBlockRows(b, totals, k) ==
    IF k > Len(totals) THEN b
    ELSE
      LET t == totals[k]
          code == Strip(t.CategoryCode)
          row == MarkerRow("totalsblock", code, code, t.Category)
          b1 == IF code # <<>>
                THEN LET row_index == current_row_index(b.sb) + 1
                     IN  Register(Put(b, row), code, row_index)
                ELSE Put(b, row)
      IN  TotalsBlockRows(b1, totals, k + 1)

render_summary_totals_block(b, r, cash_type) ==
    LET totals == get_categories_by_type(r, cash_type)
    IN  IF Len(totals) < 2 THEN b
        ELSE TotalsBlockRows(
                 Put(Put(b, SpacerRow), LabelRow("totalsblockhdr", <<>>, SomeText, <<>>)),
                 totals, 1)

get_category_totals(r) == r.category_totals
\* SourceCategoryCode of each row of Cash.fnFlowCategoryTotalCodes(code)
get_category_total_codes(r, code) ==
    LET hit == {i \in 1..Len(r.category_totals) :
                    Strip(r.category_totals[i].CategoryCode) = code}
    IN  IF hit = {} THEN <<>>
        ELSE r.category_totals[CHOOSE i \in hit : \A k \in hit : i <= k].sources

\* the "+"-joined terms of one column: registered source codes only
RECURSIVE TotalTerms(_, _, _, _)
TotalTerms(src_codes, k, col_letter, reg) ==
    IF k > Len(src_codes) THEN <<>>
    ELSE LET sc == Strip(src_codes[k])
             rest == TotalTerms(src_codes, k + 1, col_letter, reg)
         IN  IF sc \in DOMAIN reg THEN <<RefText(col_letter, reg[sc])>> \o rest
             ELSE rest

RECURSIVE JoinPlus(_)
JoinPlus(terms) ==
    IF Len(terms) = 0 THEN <<>>
    ELSE IF Len(terms) = 1 THEN terms[1]
    ELSE terms[1] \o <<"+">> \o JoinPlus(Tail(terms))

TotalFormulaCells(row, first_col, last_col, src_codes, reg) ==
    LET RECURSIVE Cells(_, _)
        Cells(rw, col) ==
            IF col > last_col THEN rw
            ELSE LET terms == TotalTerms(src_codes, 1, _col_letter(col), reg)
                 IN  Cells(IF Len(terms) > 0
                           THEN add_number_cell(rw, 0, <<>>, JoinPlus(terms))
                           ELSE add_number_cell(rw, 0, <<>>, <<>>), col + 1)
    IN  Cells(row, first_col)

RECURSIVE TotalFormulaRows(_, _, _, _, _, _)
TotalFormulaRows(b, r, totals, k, first_col, last_col) ==
    IF k > Len(totals) THEN b
    ELSE
      LET t == totals[k]
          code == Strip(t.CategoryCode)
          desc == Strip(t.Category)
      IN  IF code = <<>> THEN TotalFormulaRows(b, r, totals, k + 1, first_col, last_col)
          ELSE
            LET row_index == current_row_index(b.sb) + 1
                b1 == Register(b, code, row_index)
                src_codes == get_category_total_codes(r, code)
                row == TotalFormulaCells(MarkerRow("total", code, code, desc),
                                         first_col, last_col, src_codes, b1.reg)
            IN  TotalFormulaRows(Put(b1, row), r, totals, k + 1, first_col, last_col)

render_totals_formula(b, r) ==
    LET b1 == Put(Put(b, SpacerRow), LabelRow("totalshdr", <<>>, SomeText, <<>>))
        totals == get_category_totals(r)
        first_col == FirstPeriodCol
        last_col == first_col + PeriodCols(r.years, r.months) - 1
    IN  IF Len(totals) = 0 \/ last_col < first_col THEN b1
        ELSE TotalFormulaRows(b1, r, totals, 1, first_col, last_col)

(***************************************************************************)
(* Expression Resolver                                                     *)
(***************************************************************************)
_to_semantic_cell_style(template_code) ==
    IF template_code = <<>> THEN CASH0_CELL
    ELSE LET u == UpperStr(Strip(template_code))
         IN  IF EndsWith(u, S_CELL) \/ EndsWith(u, S_POS_CELL) \/ EndsWith(u, S_NEG_CELL)
             THEN u
             ELSE IF StartsWith(u, S_CASH) \/ StartsWith(u, S_NUM) \/ StartsWith(u, S_PCT)
             THEN u \o S_CELL
             ELSE CASH0_CELL

\* rows of Cash.vwFlowCategories WHERE Category = name: code of the first, or
\* the empty text when there is none
get_category_code_from_name(r, name) ==
    LET cats == AllCategories(r)
        hit == {i \in 1..Len(cats) : cats[i].Category = name}
    IN  IF hit = {} THEN <<>>
        ELSE Strip(cats[CHOOSE i \in hit : \A k \in hit : i <= k].CategoryCode)

\* totals_by_name: Category -> CategoryCode of the total definitions, a later
\* definition of the same name replacing an earlier one
TotalsByName(r, name) ==
    LET ts == get_category_totals(r)
        hit == {i \in 1..Len(ts) : /\ Strip(ts[i].Category) = name
                                   /\ Strip(ts[i].Category) # <<>>
                                   /\ Strip(ts[i].CategoryCode) # <<>>}
    IN  IF hit = {} THEN <<>>
        ELSE Strip(ts[CHOOSE i \in hit : \A k \in hit : i >= k].CategoryCode)

IsWordChar(ch) == IsLetter(ch) \/ IsDigit(ch) \/ ch = "_"

\* re.sub(r'\bif\s*\(', 'IF(', text, flags=re.IGNORECASE)
RECURSIVE CanonIf(_, _)
CanonIf(s, i) ==
    IF i > Len(s) THEN <<>>
    ELSE
      LET boundary == i = 1 \/ ~IsWordChar(s[i - 1])
          isIf == /\ i + 1 <= Len(s)
                  /\ Upper(s[i]) = "I"
                  /\ Upper(s[i + 1]) = "F"
          paren == SpacesEnd(s, i + 2)
      IN  IF boundary /\ isIf /\ paren <= Len(s) /\ s[paren] = "("
          THEN <<"I","F","(">> \o CanonIf(s, paren + 1)
          ELSE <<s[i]>> \o CanonIf(s, i + 1)

normalize_for_calc(formula_text) ==
    Replace(CanonIf(formula_text, 1), <<",">>, <<";">>)

InSeq(x, sq) == \E k \in 1..Len(sq) : sq[k] = x

\* the distinct [Name] tokens of a template, in first-seen order
RECURSIVE ExtractTokens(_, _, _)
ExtractTokens(template, i, tokens) ==
    IF i > Len(template) THEN tokens
    ELSE
      LET lb == Find(template, <<"[">>, i)
          rb == IF lb = 0 THEN 0 ELSE Find(template, <<"]">>, lb + 1)
      IN  IF lb = 0 \/ rb = 0 THEN tokens
          ELSE LET token == Strip(SubSeq(template, lb + 1, rb - 1))
               IN  ExtractTokens(template, rb + 1,
                       IF token # <<>> /\ ~InSeq(token, tokens)
                       THEN Append(tokens, token) ELSE tokens)

\* mutant of NameToCode: the totals map is asked before the repository
NameToCodeTotalsFirst(r, name) ==
    LET byRepo == get_category_code_from_name(r, name)
        byTotals == TotalsByName(r, name)
    IN  IF byTotals # <<>> THEN byTotals
        ELSE IF byRepo # <<>> THEN byRepo
        ELSE name

\* name_to_code[name]
NameToCode(r, name) ==
    LET byRepo == get_category_code_from_name(r, name)
        byTotals == TotalsByName(r, name)
    IN  IF byRepo # <<>> THEN byRepo
        ELSE IF byTotals # <<>> THEN byTotals
        ELSE name

Bracket(x) == <<"[">> \o x \o <<"]">>

\* Replace [Name] -> [Code], token by token
RECURSIVE NamesToCodes(_, _, _, _)
NamesToCodes(r, text, tokens, k) ==
    IF k > Len(tokens) THEN text
    ELSE NamesToCodes(r, Replace(text, Bracket(tokens[k]),
                                 Bracket(NameToCode(r, tokens[k]))), tokens, k + 1)

\* the distinct resolved codes, listed in token order
RECURSIVE DistinctCodes(_, _, _, _)
DistinctCodes(r, tokens, k, acc) ==
    IF k > Len(tokens) THEN acc
    ELSE LET code == NameToCode(r, tokens[k])
         IN  DistinctCodes(r, tokens, k + 1,
                           IF InSeq(code, acc) THEN acc ELSE Append(acc, code))

\* [Code] -> <column letter><registered row>, or 0 when not registered
RECURSIVE SubstituteCodes(_, _, _, _, _)
SubstituteCodes(formula, codes, k, col_letter, reg) ==
    IF k > Len(codes) THEN formula
    ELSE
      LET code == codes[k]
          row_index == IF code \in DOMAIN reg THEN reg[code] ELSE -1
      IN  SubstituteCodes(
              IF row_index <= 0
              THEN Replace(formula, Bracket(code), <<"0">>)
              ELSE Replace(formula, Bracket(code), RefText(col_letter, row_index)),
              codes, k + 1, col_letter, reg)

ExpressionCells(row, first_col, last_col, normalized, codes, reg, override_style) ==
    LET RECURSIVE Cells(_, _)
        Cells(rw, col) ==
            IF col > last_col THEN rw
            ELSE Cells(add_number_cell(rw, 0, override_style,
                          SubstituteCodes(normalized, codes, 1, _col_letter(col), reg)),
                       col + 1)
    IN  Cells(row, first_col)

RECURSIVE ExpressionRows(_, _, _, _, _, _)
ExpressionRows(b, r, exprs, k, first_col, last_col) ==
    IF k > Len(exprs) THEN b
    ELSE
      LET expr == exprs[k]
          category_name == Strip(expr.Category)
          template == Strip(expr.Expression)
          override_style ==
              IF expr.Format # <<>> THEN _to_semantic_cell_style(expr.Format)
              ELSE NUM0_CELL
          code0 == Strip(expr.CategoryCode)
          code1 == IF code0 # <<>> THEN code0
                   ELSE get_category_code_from_name(r, category_name)
          expr_code == IF code1 # <<>> THEN code1 ELSE TotalsByName(r, category_name)
          ab == add_text_cell(add_text_cell(NewRow("expression", expr_code),
                                            category_name, <<>>), <<>>, <<>>)
          abc == IF expr_code # <<>>
                 THEN add_number_cell(ab, 0, <<>>, Quoted(expr_code))
                 ELSE RowAppend(ab, BlankCell)
          tokens == ExtractTokens(template, 1, <<>>)
          normalized == normalize_for_calc(NamesToCodes(r, template, tokens, 1))
          codes == DistinctCodes(r, tokens, 1, <<>>)
          row == ExpressionCells(abc, first_col, last_col, normalized, codes,
                                 b.reg, override_style)
      IN  ExpressionRows(Put(b, row), r, exprs, k + 1, first_col, last_col)

get_category_expressions(r) == r.expressions

render_expressions(b, r) ==
    LET b1 == Put(b, LabelRow("analysishdr", <<>>, SomeText, <<>>))
        exprs == get_category_expressions(r)
        first_col == FirstPeriodCol
        last_col == first_col + PeriodCols(r.years, r.months) - 1
    IN  IF Len(exprs) = 0 \/ last_col < first_col THEN b1
        ELSE ExpressionRows(b1, r, exprs, 1, first_col, last_col)

(***************************************************************************)
(* Bank balances                                                           *)
(***************************************************************************)
December == 12

get_bank_accounts(r) == r.bank_accounts

\* bal_map of one account: (YearNumber, MonthNumber) -> Balance
get_bank_balances(acct) == acct.balances

\* month cells and the carried year cell of one account and year
BankYearCells(row, months, year_num, bal_map) ==
    LET RECURSIVE Months(_, _, _)
        Months(rw, k, last_val) ==
            IF k > Len(months)
            THEN add_number_cell(rw,
                     IF <<year_num, December>> \in DOMAIN bal_map
                     THEN bal_map[<<year_num, December>>] ELSE last_val, <<>>, <<>>)
            ELSE LET v == IF <<year_num, months[k]>> \in DOMAIN bal_map
                          THEN bal_map[<<year_num, months[k]>>] ELSE 0
                 IN  Months(add_number_cell(rw, v, <<>>, <<>>), k + 1, v)
    IN  Months(row, 1, 0)

RECURSIVE BankAccountYears(_, _, _, _)
BankAccountYears(row, r, acct, y_idx) ==
    IF y_idx > Len(r.years) THEN row
    ELSE BankAccountYears(
             BankYearCells(row, r.months, r.years[y_idx], get_bank_balances(acct)),
             r, acct, y_idx + 1)

\* value of the k-th period cell (k >= 1) of a row
PeriodValue(row, k) == row.cells[FirstPeriodCol - 1 + k].value

RECURSIVE BankAccountRows(_, _, _, _)
BankAccountRows(b, r, accounts, k) ==
    IF k > Len(accounts) THEN b
    ELSE LET acct == accounts[k]
             row == BankAccountYears(
                        LabelRow("bank", acct.AccountCode, acct.AccountCode,
                                 acct.AccountName), r, acct, 1)
         IN  BankAccountRows(Put(b, row), r, accounts, k + 1)

\* company_totals[i]: the sum of the account rows first..last in period cell i
RECURSIVE CompanyTotal(_, _, _, _)
CompanyTotal(table, first, last, i) ==
    IF first > last THEN 0
    ELSE PeriodValue(table[first], i) + CompanyTotal(table, first + 1, last, i)

render_bank_balances(b, r) ==
    LET b1 == Put(Put(b, SpacerRow), LabelRow("bankhdr", <<>>, SomeText, <<>>))
        accounts == get_bank_accounts(r)
    IN  IF Len(accounts) = 0
        THEN Put(b1, LabelRow("nobank", <<>>, SomeText, <<>>))
        ELSE
          LET first == current_row_index(b1.sb) + 1
              b2 == BankAccountRows(b1, r, accounts, 1)
              last == current_row_index(b2.sb)
              total_cols == PeriodCols(r.years, r.months)
              tr == LET RECURSIVE Cells(_, _)
                        Cells(rw, i) ==
                            IF i > total_cols THEN rw
                            ELSE Cells(add_number_cell(rw,
                                          CompanyTotal(b2.sb.table, first, last, i),
                                          <<>>, <<>>), i + 1)
                    IN  Cells(LabelRow("banktotal", <<>>, SomeText, <<>>), 1)
          IN  Put(b2, tr)

(***************************************************************************)
(* VAT details.  A period is [YearNumber, StartMonth, started, vals]:      *)
(* StartMonth is StartOn.month, started is StartOn <= now, vals maps the   *)
(* column names to their values.  An accrual is [YearNumber, vals], a      *)
(* column that is NULL being absent from vals.                             *)
(***************************************************************************)
\* the column read for each label of the recurrence rows, li = 0..9
RecurrenceColumns ==
    <<"HomeSales", "HomePurchases", "ExportSales", "ExportPurchases", "HomeSalesVat",
      "HomePurchasesVat", "ExportSalesVat", "ExportPurchasesVat", "VatAdjustment",
      "VatDue">>

\* the column read for each label of the monthly rows, li = 0..8
MonthlyColumns ==
    <<"HomeSales", "HomePurchases", "ExportSales", "ExportPurchases", "HomeSalesVat",
      "HomePurchasesVat", "ExportSalesVat", "ExportPurchasesVat", "VatDue">>

\* the columns the accruals are added to
AccrualColumns ==
    {"HomeSalesVat", "HomePurchasesVat", "ExportSalesVat", "ExportPurchasesVat", "VatDue"}

\* by_year.get(ynum, [])
OfYear(rows, ynum) == SelectSeq(rows, LAMBDA p : p.YearNumber = ynum)

\* float(p.get(column, 0) or 0) of a period that is counted, else 0.0
VatValue(p, column, include_active_periods) ==
    IF (include_active_periods \/ p.started) /\ column \in DOMAIN p.vals
    THEN p.vals[column] ELSE 0

\* the values with the accruals of the year added position by position
WithAccruals(vals, accs, column, include_tax_accruals) ==
    AsList([idx \in 1..Len(vals) |->
        vals[idx] + (IF /\ include_tax_accruals
                        /\ column \in AccrualColumns
                        /\ idx <= Len(accs)
                        /\ column \in DOMAIN accs[idx].vals
                     THEN accs[idx].vals[column] ELSE 0)])

\* add_number_cell for each value, then for their sum
ValuesAndSum(row, vals) ==
    LET RECURSIVE Cells(_, _, _)
        Cells(rw, k, total) ==
            IF k > Len(vals) THEN add_number_cell(rw, total, <<>>, <<>>)
            ELSE Cells(add_number_cell(rw, vals[k], <<>>, <<>>), k + 1, total + vals[k])
    IN  Cells(row, 1, 0)

render_vat_recurrence_totals(b, r) ==
    LET RECURSIVE Years(_, _, _)
        Years(rw, column, y_idx) ==
            IF y_idx > Len(r.years) THEN rw
            ELSE LET periods == OfYear(r.vat_recurrence, r.years[y_idx])
                     period_vals ==
                         AsList([k \in 1..Len(periods) |->
                                    VatValue(periods[k], column, r.include_active)])
                 IN  Years(ValuesAndSum(rw,
                               WithAccruals(period_vals,
                                   OfYear(r.vat_recurrence_accruals, r.years[y_idx]),
                                   column, r.include_tax_accruals)),
                           column, y_idx + 1)
        RECURSIVE Labels(_, _)
        Labels(bb, li) ==
            IF li > Len(RecurrenceColumns) THEN bb
            ELSE Labels(Put(bb, Years(LabelRow("vatrecurrence", <<>>, SomeText, <<>>),
                                      RecurrenceColumns[li], 1)),
                        li + 1)
    IN  Put(Labels(Put(b, LabelRow("vathdr", <<>>, SomeText, <<>>)), 1), SpacerRow)

\* month_vals of one year: each counted period added at the first month of
\* the list whose MonthNumber is the month of its StartOn
MonthVals(periods, months, column, include_active_periods) ==
    LET RECURSIVE Added(_, _)
        Added(k, idx) ==
            IF k > Len(periods) THEN 0
            ELSE (IF /\ include_active_periods \/ periods[k].started
                     /\ \E i \in 1..Len(months) : months[i] = periods[k].StartMonth
                     /\ idx = (CHOOSE i \in 1..Len(months) :
                                   /\ months[i] = periods[k].StartMonth
                                   /\ \A j \in 1..(i - 1) : months[j] # periods[k].StartMonth)
                  THEN VatValue(periods[k], column, include_active_periods) ELSE 0)
                 + Added(k + 1, idx)
    IN  AsList([idx \in 1..Len(months) |-> Added(1, idx)])

render_vat_period_totals(b, r) ==
    LET RECURSIVE Years(_, _, _)
        Years(rw, column, y_idx) ==
            IF y_idx > Len(r.years) THEN rw
            ELSE Years(ValuesAndSum(rw,
                           WithAccruals(
                               MonthVals(OfYear(r.vat_period_totals, r.years[y_idx]),
                                         r.months, column, r.include_active),
                               OfYear(r.vat_period_accruals, r.years[y_idx]),
                               column, r.include_tax_accruals)),
                       column, y_idx + 1)
        RECURSIVE Labels(_, _)
        Labels(bb, li) ==
            IF li > Len(MonthlyColumns) THEN bb
            ELSE Labels(Put(bb, Years(LabelRow("vatperiod", <<>>, SomeText, <<>>),
                                      MonthlyColumns[li], 1)),
                        li + 1)
    IN  Put(Labels(Put(b, LabelRow("vatperiodhdr", <<>>, SomeText, <<>>)), 1), SpacerRow)

(***************************************************************************)
(* Balance sheet                                                           *)
(***************************************************************************)
\* rows of Cash.vwBalanceSheet in EntryNumber order
get_balance_sheet(r) == r.balance_sheet

\* order: the (AssetCode, AssetName) of the groups, by first entry
AssetOrder(entries) ==
    LET RECURSIVE Seen(_, _)
        Seen(k, order) ==
            IF k > Len(entries) THEN order
            ELSE Seen(k + 1,
                      IF InSeq(<<entries[k].AssetCode, entries[k].AssetName>>, order)
                      THEN order
                      ELSE Append(order, <<entries[k].AssetCode, entries[k].AssetName>>))
    IN  Seen(1, <<>>)

\* groups[key].get((year_num, mm)): [has, v], a later entry of the same
\* asset, year and month replacing an earlier one
GroupBalance(entries, key, year_num, mm) ==
    LET hit == {i \in 1..Len(entries) :
                   /\ <<entries[i].AssetCode, entries[i].AssetName>> = key
                   /\ entries[i].YearNumber = year_num
                   /\ entries[i].MonthNumber = mm}
    IN  IF hit = {} THEN [v |-> 0, has |-> FALSE]
        ELSE [v |-> entries[CHOOSE i \in hit : \A k \in hit : i >= k].Balance,
              has |-> TRUE]

\* mutant of AssetYearCells: the year total refers to the last month of the
\* year, with or without an entry
AssetYearLastMonth(row, entries, key, months, year_num, year_start_col, cur_row_index) ==
    LET RECURSIVE Months(_, _, _)
        Months(rw, k, last_non_empty_col_letter) ==
            IF k > Len(months)
            THEN IF last_non_empty_col_letter # <<>>
                 THEN add_number_cell(rw, 0, <<>>,
                          RefText(last_non_empty_col_letter, cur_row_index))
                 ELSE add_number_cell(rw, 0, <<>>, <<>>)
            ELSE LET v == GroupBalance(entries, key, year_num, months[k])
                 IN  Months(add_number_cell(rw, IF v.has THEN v.v ELSE 0, <<>>, <<>>),
                            k + 1, _col_letter(year_start_col + k - 1))
    IN  Months(row, 1, <<>>)

\* the month cells of one asset and year, then the year total: a reference
\* to the last month cell that has an entry, or the literal 0
AssetYearCells(row, entries, key, months, year_num, year_start_col, cur_row_index) ==
    LET RECURSIVE Months(_, _, _)
        Months(rw, k, last_non_empty_col_letter) ==
            IF k > Len(months)
            THEN IF last_non_empty_col_letter # <<>>
                 THEN add_number_cell(rw, 0, <<>>,
                          RefText(last_non_empty_col_letter, cur_row_index))
                 ELSE add_number_cell(rw, 0, <<>>, <<>>)
            ELSE LET v == GroupBalance(entries, key, year_num, months[k])
                 IN  Months(add_number_cell(rw, IF v.has THEN v.v ELSE 0, <<>>, <<>>),
                            k + 1,
                            IF v.has THEN _col_letter(year_start_col + k - 1)
                            ELSE last_non_empty_col_letter)
    IN  Months(row, 1, <<>>)

render_balance_sheet(b, r) ==
    LET b1 == Put(b, add_text_cell(NewRow("balancehdr", <<>>), SomeText, <<>>))
        entries == get_balance_sheet(r)
        order == AssetOrder(entries)
        RECURSIVE Years(_, _, _, _)
        Years(rw, key, y_idx, cur_row_index) ==
            IF y_idx > Len(r.years) THEN rw
            ELSE Years(AssetYearCells(rw, entries, key, r.months, r.years[y_idx],
                           FirstPeriodCol + (y_idx - 1) * (Len(r.months) + 1),
                           cur_row_index),
                       key, y_idx + 1, cur_row_index)
        RECURSIVE Assets(_, _)
        Assets(bb, k) ==
            IF k > Len(order) THEN bb
            ELSE Assets(Put(bb, Years(LabelRow("asset", order[k][1], order[k][1],
                                               order[k][2]),
                                      order[k], 1, current_row_index(bb.sb) + 1)),
                        k + 1)
        b2 == Assets(b1, 1)
        first_asset_row == current_row_index(b2.sb) - Len(order) + 1
        last_row_index == current_row_index(b2.sb) + 1
        RECURSIVE Capital(_, _)
        Capital(cap, col_offset) ==
            IF col_offset >= PeriodCols(r.years, r.months) THEN cap
            ELSE Capital(add_number_cell(cap, 0, <<>>,
                             SumText(_col_letter(FirstPeriodCol + col_offset),
                                     first_asset_row,
                                     _col_letter(FirstPeriodCol + col_offset),
                                     last_row_index - 1)),
                         col_offset + 1)
    IN  IF Len(entries) = 0 THEN b1
        ELSE Put(b2, Capital(LabelRow("capital", <<>>, SomeText, <<>>), 0))

(***************************************************************************)
(* build_cashflow_table: header rows, then the sections in order           *)
(***************************************************************************)
HeaderSpan == 3
YearSpan == 2

RECURSIVE BlankCells(_, _)
BlankCells(row, n) == IF n <= 0 THEN row ELSE BlankCells(RowAppend(row, BlankCell), n - 1)

RECURSIVE TextCells(_, _, _)
TextCells(row, n, style) ==
    IF n <= 0 THEN row ELSE TextCells(add_text_cell(row, SomeText, style), n - 1, style)

RECURSIVE Row3Years(_, _, _)
Row3Years(row, month_count, n) ==
    IF n <= 0 THEN row
    ELSE Row3Years(
             add_text_cell(
                 BlankCells(add_spanned_text_cell(row, SomeText, YearSpan, BoldHeaderStyle),
                            month_count - YearSpan),
                 SomeText, BoldHeaderStyle),
             month_count, n - 1)

RECURSIVE Row4Years(_, _, _)
Row4Years(row, month_count, n) ==
    IF n <= 0 THEN row
    ELSE Row4Years(
             add_text_cell(TextCells(row, month_count, Row4HeaderCell),
                           SomeText, TotalsColHeaderCell),
             month_count, n - 1)

HeaderRows(b, r) ==
    LET title == add_spanned_text_cell(NewRow("title", <<>>), SomeText, HeaderSpan,
                                       BoldHeaderStyle)
        r3 == Row3Years(
                  RowAppend(TextCells(NewRow("header", <<>>), 2, BoldHeaderStyle), BlankCell),
                  Len(r.months), Len(r.years))
        r4 == Row4Years(
                  RowAppend(TextCells(NewRow("header", <<>>), 2, Row4HeaderCell),
                            [BlankCell EXCEPT !.style = Row4HeaderCell]),
                  Len(r.months), Len(r.years))
    IN  Put(Put(Put(Put(b, title), title), r3), r4)

Sections == <<"header", "trade", "trade_summary", "money", "money_summary",
              "trade_totals", "totals", "tax", "tax_summary", "tax_totals",
              "expressions", "bank", "vat", "balance_sheet", "built">>

NextSection(p) == Sections[(CHOOSE i \in 1..Len(Sections) : Sections[i] = p) + 1]

CashTypeAt(p) ==
    CASE p \in {"trade", "trade_summary", "trade_totals"} -> Trade
      [] p \in {"money", "money_summary"} -> Money
      [] OTHER -> Tax

BuildState == [sb |-> sb, reg |-> totals_row_by_category, log |-> registered]

Advance(b) ==
    /\ sb' = b.sb
    /\ totals_row_by_category' = b.reg
    /\ registered' = b.log
    /\ pc' = NextSection(pc)
    /\ UNCHANGED <<appendCalls, observed, repo, content, diagnostics, colIndex,
                   colName, colParsed, called>>

BuildHeader ==
    /\ pc = "header"
    /\ Advance(HeaderRows(BuildState, repo))

RenderCategoriesAndSummary ==
    /\ pc \in {"trade", "money", "tax"}
    /\ Advance(render_categories_and_summary(BuildState, repo, CashTypeAt(pc)))

RenderSummaryAfterCategories ==
    /\ pc \in {"trade_summary", "money_summary", "tax_summary"}
    /\ Advance(render_summary_after_categories(BuildState, repo,
                                               get_categories(repo, CashTypeAt(pc))))

RenderSummaryTotalsBlock ==
    /\ pc \in {"trade_totals", "tax_totals"}
    /\ Advance(render_summary_totals_block(BuildState, repo, CashTypeAt(pc)))

RenderTotalsFormula ==
    /\ pc = "totals"
    /\ Advance(render_totals_formula(BuildState, repo))

RenderExpressions ==
    /\ pc = "expressions"
    /\ Advance(render_expressions(BuildState, repo))

RenderBankBalances ==
    /\ pc = "bank"
    /\ repo.include_bank_balances
    /\ Advance(Put(render_bank_balances(BuildState, repo), SpacerRow))

RenderVatDetails ==
    /\ pc = "vat"
    /\ repo.include_vat_details
    /\ Advance(render_vat_period_totals(render_vat_recurrence_totals(BuildState, repo), repo))

RenderBalanceSheet ==
    /\ pc = "balance_sheet"
    /\ repo.include_balance_sheet
    /\ Advance(render_balance_sheet(BuildState, repo))

SkipSection ==
    /\ \/ pc = "bank" /\ ~repo.include_bank_balances
       \/ pc = "vat" /\ ~repo.include_vat_details
       \/ pc = "balance_sheet" /\ ~repo.include_balance_sheet
    /\ Advance(BuildState)

(***************************************************************************)
(* Style Factory: semantic names, the StyleRegistry and the injector.      *)
(* An automatic style is [tag, name, data_style, attrs, children]; a child *)
(* element is [tag, text, attrs, ref, kids] with kids its number of        *)
(* children.  attrs is a set of <<attribute, value>> pairs.                *)
(***************************************************************************)
S_DS == <<"_","D","S">>
S_POS_DS == <<"_","P","O","S","_","D","S">>
S_NEG_DS == <<"_","N","E","G","_","D","S">>
TEXT_CELL == <<"T","E","X","T">> \o S_CELL

NoKey == [kind |-> "none", decimals |-> 0, polarity |-> "", cell_style_name |-> <<>>]

\* int(u[k - 1]) with the fallback dp = 0
DecimalsAt(u, k) == IF k <= Len(u) /\ IsDigit(u[k]) THEN DigitVal(u[k]) ELSE 0

\* the branches of parse_style_name on u = name.strip().upper()
ParsedUpper(u) ==
    IF u = TEXT_CELL THEN NoKey
    ELSE IF StartsWith(u, S_NUM) /\ EndsWith(u, S_CELL)
    THEN [kind |-> "number", decimals |-> DecimalsAt(u, 4), polarity |-> "",
          cell_style_name |-> u]
    ELSE IF StartsWith(u, S_PCT) /\ EndsWith(u, S_CELL)
    THEN [kind |-> "percentage", decimals |-> DecimalsAt(u, 4), polarity |-> "",
          cell_style_name |-> u]
    ELSE IF StartsWith(u, S_CASH) /\ EndsWith(u, S_CELL) /\ EndsWith(u, S_POS_CELL)
    THEN [kind |-> "cash", decimals |-> DecimalsAt(u, 5), polarity |-> "pos",
          cell_style_name |-> u]
    ELSE IF StartsWith(u, S_CASH) /\ EndsWith(u, S_CELL) /\ EndsWith(u, S_NEG_CELL)
    THEN [kind |-> "cash", decimals |-> DecimalsAt(u, 5), polarity |-> "neg",
          cell_style_name |-> u]
    ELSE NoKey

parse_style_name(name) == IF name = <<>> THEN NoKey ELSE ParsedUpper(UpperStr(Strip(name)))

DataStyleNameUpper(u) ==
    IF EndsWith(u, S_POS_CELL) THEN Replace(u, S_POS_CELL, S_POS_DS)
    ELSE IF EndsWith(u, S_NEG_CELL) THEN Replace(u, S_NEG_CELL, S_NEG_DS)
    ELSE IF EndsWith(u, S_CELL) THEN Replace(u, S_CELL, S_DS)
    ELSE <<>>

data_style_name_for_cell(cell_style_name) == DataStyleNameUpper(UpperStr(Strip(cell_style_name)))

\* the <<row, position>> pairs of the table:table-cell children of all rows
TableCells(rows) ==
    UNION {{<<r, q>> : q \in {x \in 1..Len(rows[r].cells) : rows[r].cells[x].tag = "cell"}} :
              r \in 1..Len(rows)}

\* the first of a non-empty set of <<row, position>> pairs in document order
FirstPosition(ps) ==
    LET r == CHOOSE x \in {q[1] : q \in ps} : \A y \in {q[1] : q \in ps} : x <= y
        here == {q[2] : q \in {x \in ps : x[1] = r}}
    IN  <<r, CHOOSE x \in here : \A y \in here : x <= y>>

PositionBefore(a, b) == a[1] < b[1] \/ (a[1] = b[1] /\ a[2] < b[2])

\* the <<label, first position>> pairs in document order of the positions
RankedLabels(firsts) ==
    AsList([i \in 1..Cardinality(firsts) |->
        (CHOOSE p \in firsts :
            Cardinality({m \in firsts : PositionBefore(m[2], p[2])}) + 1 = i)[1]])

\* each label with the first of the positions that carry it
FirstOfLabels(labelled) ==
    {<<l, FirstPosition({p[1] : p \in {x \in labelled : x[2] = l}})>> :
        l \in {p[2] : p \in labelled}}

\* the distinct values Label(q) over the positions, by first occurrence in
\* document order
FirstSeenOrder(positions, Label(_)) ==
    RankedLabels(FirstOfLabels({<<q, Label(q)>> : q \in positions}))

\* the StyleKey of each name in turn
KeysOf(names) == AsList([i \in 1..Len(names) |-> parse_style_name(names[i])])

\* StyleRegistry._keys after reg.add_from_cell_style_name(sname) for every
\* table:table-cell in document order: a dict keyed by cell_style_name, one
\* key per name, in insertion order
StyleRegistryKeys(rows) ==
    KeysOf(FirstSeenOrder(
               {q \in TableCells(rows) :
                   parse_style_name(rows[q[1]].cells[q[2]].style).kind # "none"},
               LAMBDA q : parse_style_name(rows[q[1]].cells[q[2]].style).cell_style_name))

DataSpecOf(key) ==
    [name |-> data_style_name_for_cell(key.cell_style_name),
     kind |-> IF key.kind = "cash"
              THEN (IF key.polarity = "neg" THEN "cash_neg" ELSE "number")
              ELSE key.kind,
     decimals |-> key.decimals]

CellSpecOf(key) ==
    [name |-> key.cell_style_name,
     data_style_name |-> data_style_name_for_cell(key.cell_style_name),
     neg_red |-> key.kind = "cash" /\ key.polarity = "neg"]

\* data_specs.setdefault(ds.name, ds) when the name is not empty
AddDataSpec(acc, ds) ==
    IF ds.name = <<>> \/ \E i \in 1..Len(acc) : acc[i].name = ds.name
    THEN acc ELSE Append(acc, ds)

\* build_specs: data specs by first-seen name, cell specs one per key
RECURSIVE build_data_specs(_, _, _)
build_data_specs(keys, k, acc) ==
    IF k > Len(keys) THEN acc
    ELSE build_data_specs(keys, k + 1, AddDataSpec(acc, DataSpecOf(keys[k])))

RECURSIVE build_cell_specs(_, _, _)
build_cell_specs(keys, k, acc) ==
    IF k > Len(keys) THEN acc
    ELSE build_cell_specs(keys, k + 1,
             IF data_style_name_for_cell(keys[k].cell_style_name) = <<>> THEN acc
             ELSE Append(acc, CellSpecOf(keys[k])))

NewChild(tag) == [tag |-> tag, text |-> "", attrs |-> {}, ref |-> <<>>, kids |-> 0]
NewStyle(tag, name) ==
    [name |-> name, tag |-> tag, attrs |-> {}, data_style |-> <<>>, children |-> <<>>]

\* el.get(attr) is None
AttrMissing(el, attr) == \A pr \in el.attrs : pr[1] # attr
\* el.set(attr, value)
SetAttr(el, attr, value) ==
    [el EXCEPT !.attrs = {pr \in @ : pr[1] # attr} \cup {<<attr, value>>}]
\* if el.get(attr) is None: el.set(attr, value)
SetDefault(el, attr, value) == IF AttrMissing(el, attr) THEN SetAttr(el, attr, value) ELSE el

\* lxml truth value of an element: it has children
Truthy(el) == el.kids > 0

\* index of the first child with the tag, 0 when there is none (el.find)
FindChild(node, tag) ==
    LET hit == {i \in 1..Len(node.children) : node.children[i].tag = tag}
    IN  IF hit = {} THEN 0 ELSE CHOOSE i \in hit : \A k \in hit : i <= k

\* find_style: index of the first automatic style with the tag and name
find_style(auto, tag, name) ==
    LET hit == {i \in 1..Len(auto) : auto[i].tag = tag /\ auto[i].name = name}
    IN  IF hit = {} THEN 0 ELSE CHOOSE i \in hit : \A k \in hit : i <= k

DecimalsText(d) == DigitChars[d + 1]

\* the number:number of a freshly created data style
FreshNumber(spec, grouping) ==
    LET n1 == SetAttr(SetAttr(SetAttr(NewChild("number"),
                  "decimal-places", DecimalsText(spec.decimals)),
                  "min-decimal-places", DecimalsText(spec.decimals)),
                  "min-integer-digits", "1")
    IN  IF grouping THEN SetAttr(n1, "grouping", "true") ELSE n1

\* the attribute defaults of a number:number element
NumberDefaults(num, spec, grouping, display_factor) ==
    LET Grouped(n) == IF grouping THEN SetDefault(n, "grouping", "true") ELSE n
        Factored(n) == IF display_factor THEN SetAttr(n, "display-factor", "-1") ELSE n
    IN  Factored(Grouped(SetDefault(SetDefault(SetDefault(num,
            "decimal-places", DecimalsText(spec.decimals)),
            "min-decimal-places", DecimalsText(spec.decimals)),
            "min-integer-digits", "1")))

\* the data style with the number:number at position idx (0: none) kept when
\* it is truthy and a new one appended otherwise
OrSubElementAt(ds, idx, spec, grouping, display_factor) ==
    IF idx # 0 /\ Truthy(ds.children[idx])
    THEN [ds EXCEPT !.children[idx] = NumberDefaults(@, spec, grouping, display_factor)]
    ELSE [ds EXCEPT !.children =
             Append(@, NumberDefaults(NewChild("number"), spec, grouping, display_factor))]

\* num = ds.find(number) or SubElement(ds, number), then the attribute
\* defaults: the node with num updated in place or appended
OrSubElementNumber(ds, spec, grouping, display_factor) ==
    OrSubElementAt(ds, FindChild(ds, "number"), spec, grouping, display_factor)

TextChild(t) == [NewChild("text") EXCEPT !.text = t]
HasText(ds, t) == \E i \in 1..Len(ds.children) :
                      ds.children[i].tag = "text" /\ ds.children[i].text = t

\* the automatic styles with the data style at position i (0: none) ensured
NumberDsAt(auto, spec, i) ==
    IF i = 0
    THEN Append(auto, [NewStyle("number-style", spec.name) EXCEPT
                          !.children = <<FreshNumber(spec, TRUE)>>])
    ELSE [auto EXCEPT ![i] = OrSubElementNumber(@, spec, TRUE, FALSE)]

ensure_number_ds(auto, spec) ==
    NumberDsAt(auto, spec, find_style(auto, "number-style", spec.name))

\* if ds.find(number:text) is None: the % text is appended
WithPercentText(ds) ==
    IF FindChild(ds, "text") = 0 THEN [ds EXCEPT !.children = Append(@, TextChild("%"))]
    ELSE ds

PercentDsAt(auto, spec, i) ==
    IF i = 0
    THEN Append(auto, [NewStyle("percentage-style", spec.name) EXCEPT
                          !.children = <<FreshNumber(spec, FALSE), TextChild("%")>>])
    ELSE [auto EXCEPT ![i] = WithPercentText(OrSubElementNumber(@, spec, FALSE, FALSE))]

ensure_percent_ds(auto, spec) ==
    PercentDsAt(auto, spec, find_style(auto, "percentage-style", spec.name))

\* has_l and has_r: the parentheses are added when they are not there
WithOpenParen(ds) ==
    IF HasText(ds, "(") THEN ds ELSE [ds EXCEPT !.children = <<TextChild("(")>> \o @]
WithCloseParen(ds) ==
    IF HasText(ds, ")") THEN ds ELSE [ds EXCEPT !.children = Append(@, TextChild(")"))]

CashNegDsAt(auto, spec, i) ==
    IF i = 0
    THEN Append(auto, [NewStyle("number-style", spec.name) EXCEPT
             !.children = <<TextChild("("),
                            SetAttr(FreshNumber(spec, TRUE), "display-factor", "-1"),
                            TextChild(")")>>])
    ELSE [auto EXCEPT ![i] =
             WithCloseParen(WithOpenParen(OrSubElementNumber(@, spec, TRUE, TRUE)))]

ensure_cash_neg_ds(auto, spec) ==
    CashNegDsAt(auto, spec, find_style(auto, "number-style", spec.name))

FreshCellStyle(name) ==
    [NewStyle("style", name) EXCEPT
        !.attrs = {<<"family", "table-cell">>, <<"parent-style-name", "Default">>},
        !.children = <<NewChild("table-cell-properties")>>]

\* cs = find_style(style:style, name), created when there is none
WithCellStyle(auto, name) ==
    IF find_style(auto, "style", name) = 0 THEN Append(auto, FreshCellStyle(name)) ELSE auto

\* tp = cs.find(text-properties) or SubElement(cs, text-properties);
\* tp.set(color, red): t is the position of the first text-properties child
RedTextAt(cs, t) ==
    IF t # 0 /\ Truthy(cs.children[t])
    THEN [cs EXCEPT !.children[t] = SetAttr(@, "color", "#FF0000")]
    ELSE [cs EXCEPT !.children =
             Append(@, SetAttr(NewChild("text-properties"), "color", "#FF0000"))]

CellStyleSet(cs, spec) ==
    IF spec.neg_red
    THEN RedTextAt([cs EXCEPT !.data_style = spec.data_style_name],
                   FindChild(cs, "text-properties"))
    ELSE [cs EXCEPT !.data_style = spec.data_style_name]

CellStyleIn(auto, spec) ==
    [auto EXCEPT ![find_style(auto, "style", spec.name)] = CellStyleSet(@, spec)]

ensure_cell_style(auto, spec) == CellStyleIn(WithCellStyle(auto, spec.name), spec)

MapChild(condition, apply_style_name) ==
    [SetAttr(NewChild("map"), "condition", condition) EXCEPT !.ref = apply_style_name]

\* the maps appended without the removal of the existing ones
CashBaseKeepMaps(auto, base_name, pos_cell_name, neg_cell_name) ==
    [auto EXCEPT ![find_style(auto, "style", base_name)].children =
        @ \o <<MapChild("value() < 0", neg_cell_name),
               MapChild("value() >= 0", pos_cell_name)>>]

CashBaseIn(auto, base_name, pos_cell_name, neg_cell_name) ==
    [auto EXCEPT ![find_style(auto, "style", base_name)].children =
        SelectSeq(@, LAMBDA ch : ch.tag # "map")
            \o <<MapChild("value() < 0", neg_cell_name),
                 MapChild("value() >= 0", pos_cell_name)>>]

ensure_cash_base_cell_style_with_maps(auto, base_name, pos_cell_name, neg_cell_name) ==
    CashBaseIn(WithCellStyle(auto, base_name), base_name, pos_cell_name, neg_cell_name)

\* the data style a spec asks for
EnsureDataStyle(auto, ds) ==
    CASE ds.kind = "number" -> ensure_number_ds(auto, ds)
      [] ds.kind = "percentage" -> ensure_percent_ds(auto, ds)
      [] ds.kind = "cash_neg" -> ensure_cash_neg_ds(auto, ds)
      [] OTHER -> auto

RECURSIVE EnsureDataStyles(_, _, _)
EnsureDataStyles(auto, data_specs, k) ==
    IF k > Len(data_specs) THEN auto
    ELSE EnsureDataStyles(EnsureDataStyle(auto, data_specs[k]), data_specs, k + 1)

RECURSIVE EnsureCellStyles(_, _, _)
EnsureCellStyles(auto, cell_specs, k) ==
    IF k > Len(cell_specs) THEN auto
    ELSE EnsureCellStyles(ensure_cell_style(auto, cell_specs[k]), cell_specs, k + 1)

\* the base CASHx cell style of a POS name whose NEG name is present
CashBaseFor(auto, cell_specs, pos, neg) ==
    IF /\ EndsWith(pos, S_POS_CELL)
       /\ \E i \in 1..Len(cell_specs) :
             cell_specs[i].name = neg /\ EndsWith(neg, S_NEG_CELL)
    THEN ensure_cash_base_cell_style_with_maps(auto, Replace(pos, S_POS_CELL, S_CELL),
                                               pos, neg)
    ELSE auto

\* the base CASHx cell styles, for each POS name whose NEG name is present
\* (pos_cells is a Python set: the model visits it in first-seen order)
RECURSIVE EnsureCashBases(_, _, _)
EnsureCashBases(auto, cell_specs, k) ==
    IF k > Len(cell_specs) THEN auto
    ELSE EnsureCashBases(
             CashBaseFor(auto, cell_specs, cell_specs[k].name,
                         Replace(cell_specs[k].name, S_POS_CELL, S_NEG_CELL)),
             cell_specs, k + 1)

\* every table:table-cell without a text:p child gets an empty one
WithParagraphs(rows) ==
    AsList([r \in 1..Len(rows) |->
        [rows[r] EXCEPT !.cells =
            AsList([c \in 1..Len(rows[r].cells) |->
                IF rows[r].cells[c].tag = "cell"
                THEN [rows[r].cells[c] EXCEPT !.p = TRUE]
                ELSE rows[r].cells[c]])]])

\* the ensure loops over the specs of the registry
InjectSpecs(rows, auto, data_specs, cell_specs) ==
    <<WithParagraphs(rows),
      EnsureCashBases(EnsureCellStyles(EnsureDataStyles(auto, data_specs, 1),
                                       cell_specs, 1),
                      cell_specs, 1)>>

InjectKeys(rows, auto, keys) ==
    InjectSpecs(rows, auto, build_data_specs(keys, 1, <<>>),
                build_cell_specs(keys, 1, <<>>))

\* inject_content_styles(content_xml, strip_defaults=True) on the rows and the
\* automatic styles of content.xml: <<rows, automatic styles>>
inject_content_styles(rows, auto) == InjectKeys(rows, auto, StyleRegistryKeys(rows))

(***************************************************************************)
(* Document: add_stylesheet, serialisation, save_cashflow                  *)
(***************************************************************************)
ThinBorder == "0.5pt solid #000000"
ThickBorder == "1.5pt solid #000000"

PropsChild(tag, attrs) == [NewChild(tag) EXCEPT !.attrs = attrs]

TableCellStyle(name, text_attrs, cell_attrs) ==
    [NewStyle("style", name) EXCEPT
        !.attrs = {<<"family", "table-cell">>},
        !.children = (IF text_attrs = {} THEN <<>>
                      ELSE <<PropsChild("text-properties", text_attrs)>>)
                     \o <<PropsChild("table-cell-properties", cell_attrs)>>]

BoldText == {<<"font-weight", "bold">>, <<"font-weight-complex", "bold">>}
SmallBoldText == BoldText \cup {<<"font-size", "8pt">>}
MiddleNoWrap == {<<"vertical-align", "middle">>, <<"wrap-option", "no-wrap">>,
                 <<"shrink-to-fit", "false">>}
TopBottom == {<<"border-top", ThinBorder>>, <<"border-bottom", ThinBorder>>}
LeftRight == {<<"border-left", ThinBorder>>, <<"border-right", ThickBorder>>}

add_stylesheet ==
    << TableCellStyle(BoldHeaderStyle, BoldText, MiddleNoWrap),
       [NewStyle("style", ColBWidth) EXCEPT
           !.attrs = {<<"family", "table-column">>},
           !.children = <<PropsChild("table-column-properties",
                                     {<<"column-width", "8.5cm">>})>>],
       TableCellStyle(Row4HeaderCell, SmallBoldText, MiddleNoWrap \cup TopBottom),
       TableCellStyle(TotalsColHeaderCell, SmallBoldText,
                      MiddleNoWrap \cup TopBottom \cup LeftRight),
       TableCellStyle(TotalsColDefaultCell, {}, LeftRight) >>

\* content.xml of a document: the rows of the sheet, the automatic styles,
\* how many times styles were materialised (first: the automatic styles
\* after the first time) and whether the value-cache pass has run
NoContent ==
    [first |-> <<>>, rows |-> <<>>, saved |-> FALSE, styles |-> <<>>,
     injections |-> 0, cached |-> FALSE]

\* doc.save(buf) of the document holding the stylesheet and the table
DocumentBytes(rows, stylesheet) ==
    [NoContent EXCEPT !.saved = TRUE, !.rows = rows, !.styles = stylesheet]

(***************************************************************************)
(* _post_process_totals_borders: helpers                                   *)
(***************************************************************************)
IsTableCellStyle(st) == st.tag = "style" /\ <<"family", "table-cell">> \in st.attrs

\* auto_styles.find("style:style[@style:name=name][@style:family='table-cell']")
FindCellStyle(auto, name) ==
    LET hit == {i \in 1..Len(auto) : IsTableCellStyle(auto[i]) /\ auto[i].name = name}
    IN  IF hit = {} THEN 0 ELSE CHOOSE i \in hit : \A k \in hit : i <= k

ensure_totals_default(auto) ==
    IF FindCellStyle(auto, TotalsColDefaultCell) # 0 THEN auto
    ELSE Append(auto,
             [NewStyle("style", TotalsColDefaultCell) EXCEPT
                 !.attrs = {<<"family", "table-cell">>, <<"parent-style-name", "Default">>},
                 !.children = <<PropsChild("table-cell-properties", LeftRight)>>])

\* the clone of a style with the totals-column borders set
BorderedCopy(src, new_name) ==
    LET t == FindChild(src, "table-cell-properties")
        withProps == IF t # 0 THEN src
                     ELSE [src EXCEPT !.children =
                              Append(@, NewChild("table-cell-properties"))]
        j == IF t # 0 THEN t ELSE Len(withProps.children)
    IN  [withProps EXCEPT
            !.name = new_name,
            !.children[j] = SetAttr(SetAttr(@, "border-left", ThinBorder),
                                    "border-right", ThickBorder)]

\* ensure_bordered_clone(src_style_name): <<automatic styles, returned name>>
ensure_bordered_clone(auto, src_style_name) ==
    LET new_name == src_style_name \o S_BORDERED
        src == FindCellStyle(auto, src_style_name)
    IN  IF src_style_name = <<>> THEN <<auto, src_style_name>>
        ELSE IF FindCellStyle(auto, new_name) # 0 THEN <<auto, new_name>>
        ELSE IF src = 0 THEN <<auto, src_style_name>>
        ELSE <<Append(auto, BorderedCopy(auto[src], new_name)), new_name>>

\* position in the row of the cell at a 1-based column, counting
\* table-cell and covered-table-cell with their repeats; 0 when there is none
RECURSIVE FindCellFrom(_, _, _, _)
FindCellFrom(cells, col_index_1based, k, count) ==
    IF k > Len(cells) THEN 0
    ELSE LET next_count == count + cells[k].repeat
         IN  IF col_index_1based <= next_count THEN k
             ELSE FindCellFrom(cells, col_index_1based, k + 1, next_count)

find_cell_by_index(row_elem, col_index_1based) ==
    FindCellFrom(row_elem.cells, col_index_1based, 1, 0)

is_totals_col(col_index_1based, month_count) ==
    LET rel == col_index_1based - FirstPeriodCol
        block == month_count + 1
    IN  IF rel < 0 THEN FALSE ELSE (rel % block) = (block - 1)

\* re.match(r'^(CASH\d+)_(?:POS_|NEG_)?CELL(?:_BORDERED)?$', name.upper()):
\* group 1, or the empty text when there is no match
cash_root(style_name) ==
    LET u == UpperStr(style_name)
        e == DigitsEnd(u, Len(S_CASH) + 1)
        rest == SubSeq(u, e, Len(u))
        plain == IF EndsWith(rest, S_BORDERED)
                 THEN SubSeq(rest, 1, Len(rest) - Len(S_BORDERED)) ELSE rest
    IN  IF /\ StartsWith(u, S_CASH)
           /\ e > Len(S_CASH) + 1
           /\ plain \in {S_CELL, S_POS_CELL, S_NEG_CELL}
        THEN SubSeq(u, 1, e - 1)
        ELSE <<>>

\* row.findall('table:table-cell'): the positions of the table-cell
\* children, covered cells left out
RECURSIVE TableCellPositions(_, _)
TableCellPositions(cells, k) ==
    IF k > Len(cells) THEN <<>>
    ELSE (IF cells[k].tag = "cell" THEN <<k>> ELSE <<>>)
         \o TableCellPositions(cells, k + 1)

(***************************************************************************)
(* The formula patterns of the value-cache pass                            *)
(***************************************************************************)
NoMatch == [row |-> <<>>, col |-> <<>>, ok |-> FALSE, col2 |-> <<>>, row2 |-> <<>>,
            mult |-> 1, sign |-> "", next |-> 0]

\* \$?([A-Za-z]+)\$?(\d+) at position i
RefAt(s, i) ==
    LET a == Opt(s, i, "$")
        b == LettersEnd(s, a)
        c == Opt(s, b, "$")
        d == DigitsEnd(s, c)
    IN  IF b > a /\ d > c
        THEN [NoMatch EXCEPT !.ok = TRUE, !.col = SubSeq(s, a, b - 1),
                             !.row = SubSeq(s, c, d - 1), !.next = d]
        ELSE NoMatch

Times1 == <<"*","-","1">>
SumOpen == <<"S","U","M","(">>

\* (\*\-1)?$ at position i: 0 no match, 1 end of text, -1 the text *-1
MultAt(s, i) ==
    IF i = Len(s) + 1 THEN 1
    ELSE IF StartsWithAt(s, Times1, i) /\ i + Len(Times1) = Len(s) + 1 THEN -1
    ELSE 0

\* a match m that, with the literal parts ok, ends at position stop
Whole(m, literal_ok, stop) ==
    IF literal_ok /\ m.ok /\ m.next = stop THEN m ELSE NoMatch

\* direct_ref_patterns[0]: ^of:=\.?\$?([A-Za-z]+)\$?(\d+)$
DirectRef0(f) ==
    Whole(RefAt(f, Opt(f, Len(OfPrefix) + 1, ".")), StartsWith(f, OfPrefix), Len(f) + 1)

\* direct_ref_patterns[1]: ^of:=\[\.\$?([A-Za-z]+)\$?(\d+)\]$
DirectRef1(f) ==
    Whole(RefAt(f, Len(OfPrefix) + 3),
          StartsWith(f, OfPrefix \o <<"[", ".">>) /\ f[Len(f)] = "]",
          Len(f))

\* the two range shapes: SUM([.ref:.ref]) when bracketed, SUM(ref:ref) otherwise
RangeOpen(bracketed) == OfPrefix \o SumOpen \o (IF bracketed THEN <<"[", ".">> ELSE <<>>)
RangeSep(bracketed) == IF bracketed THEN <<":", ".">> ELSE <<":">>
RangeClose(bracketed) == IF bracketed THEN <<"]", ")">> ELSE <<")">>

\* the range patterns after their first reference m1, whose second reference
\* has its letters in a..b-1 and its digits in c..d-1
RangeMatch(f, bracketed, m1, a, b, c, d, second_ok) ==
    IF /\ StartsWith(f, RangeOpen(bracketed))
       /\ m1.ok
       /\ StartsWithAt(f, RangeSep(bracketed), m1.next)
       /\ second_ok
       /\ StartsWithAt(f, RangeClose(bracketed), d)
       /\ MultAt(f, d + Len(RangeClose(bracketed))) # 0
    THEN [m1 EXCEPT !.col2 = SubSeq(f, a, b - 1), !.row2 = SubSeq(f, c, d - 1),
                    !.mult = MultAt(f, d + Len(RangeClose(bracketed))),
                    !.next = Len(f) + 1]
    ELSE NoMatch

\* sum_row_patterns: the second reference repeats the row digits (\2)
SumRowSecond(f, bracketed, m1, a, b) ==
    RangeMatch(f, bracketed, m1, a, b, Opt(f, b, "$"), Opt(f, b, "$") + Len(m1.row),
               b > a /\ StartsWithAt(f, m1.row, Opt(f, b, "$")))

SumRowFirst(f, bracketed, m1, a) == SumRowSecond(f, bracketed, m1, a, LettersEnd(f, a))

SumRow(f, bracketed) ==
    LET After(m1) ==
            SumRowFirst(f, bracketed, m1, Opt(f, m1.next + Len(RangeSep(bracketed)), "$"))
    IN  After(RefAt(f, Len(RangeOpen(bracketed)) + 1))

\* sum_col_patterns: the second reference repeats the column letters (\1)
\* and has a $ before its row digits
SumColSecond(f, bracketed, m1, a, b) ==
    RangeMatch(f, bracketed, m1, a, b, b + 1, DigitsEnd(f, b + 1),
               /\ StartsWithAt(f, m1.col, a)
               /\ StartsWithAt(f, <<"$">>, b)
               /\ DigitsEnd(f, b + 1) > b + 1)

SumColFirst(f, bracketed, m1, a) == SumColSecond(f, bracketed, m1, a, a + Len(m1.col))

SumCol(f, bracketed) ==
    LET After(m1) ==
            SumColFirst(f, bracketed, m1, Opt(f, m1.next + Len(RangeSep(bracketed)), "$"))
    IN  After(RefAt(f, Len(RangeOpen(bracketed)) + 1))

\* the alternative of add_sub_pat that matches at k, the bracketed one first
AddSubChoice(f, k, sg, inner, plain) ==
    IF /\ StartsWithAt(f, <<"[", ".">>, k)
       /\ inner.ok
       /\ StartsWithAt(f, <<"]">>, inner.next)
    THEN [inner EXCEPT !.sign = sg, !.next = inner.next + 1]
    ELSE IF plain.ok THEN [plain EXCEPT !.sign = sg]
    ELSE NoMatch

AddSubFrom(f, k, sg) == AddSubChoice(f, k, sg, RefAt(f, k + 2), RefAt(f, k))

\* add_sub_pat at position i:
\* ([+\-]?)\s*(?:\[\.\$?([A-Za-z]+)\$?(\d+)\]|\$?([A-Za-z]+)\$?(\d+))
AddSubAt(f, i) ==
    IF i <= Len(f) /\ f[i] \in {"+", "-"}
    THEN AddSubFrom(f, SpacesEnd(f, i + 1), f[i])
    ELSE AddSubFrom(f, SpacesEnd(f, i), "")

\* add_sub_pat.findall(formula): the matches from position i on
RECURSIVE AddSubFindAll(_, _)
AddSubNext(f, i, m) ==
    IF m.ok THEN <<m>> \o AddSubFindAll(f, m.next) ELSE AddSubFindAll(f, i + 1)

AddSubFindAll(f, i) == IF i > Len(f) THEN <<>> ELSE AddSubNext(f, i, AddSubAt(f, i))

(***************************************************************************)
(* The value-cache pass and the border and style steps                     *)
(***************************************************************************)
NoValue == [v |-> 0, has |-> FALSE]

\* the office:value attribute a cell carries
OwnValue(cell) == IF cell.vtype = "float" THEN [v |-> cell.value, has |-> TRUE] ELSE NoValue

\* enumerate(row.findall('table:table-cell'), start=1): the index of the
\* table-cell at position q of the row
TableCellIndex(cells, q) == Cardinality({x \in 1..q : cells[x].tag = "cell"})

\* the cells the three steps visit: the table-cell children whose index is a
\* totals column
TotalsColumnCells(rows, month_count) ==
    {q \in TableCells(rows) :
        is_totals_col(TableCellIndex(rows[q[1]].cells, q[2]), month_count)}

Min(a, b) == IF a <= b THEN a ELSE b
Max(a, b) == IF a >= b THEN a ELSE b

\* Step 2 visits the rows top to bottom and the cells left to right and
\* writes each computed value into the tree at once, so the cell at position
\* `at` reads, of a cell before it in document order, the value step 2 left
\* there and, of any other cell, the value it had before the pass.
RECURSIVE CachedValue(_, _, _)

\* office:value read at (row_num, column) by the cell at position `at`
RefValue(rows, month_count, at, row_num, col) ==
    IF row_num < 1 \/ row_num > Len(rows) THEN NoValue
    ELSE LET k == find_cell_by_index(rows[row_num], col)
         IN  IF k = 0 THEN NoValue
             ELSE IF PositionBefore(<<row_num, k>>, at)
             THEN CachedValue(rows, month_count, <<row_num, k>>)
             ELSE OwnValue(rows[row_num].cells[k])

RECURSIVE SumRowValue(_, _, _, _, _, _)
SumRowValue(rows, month_count, at, row_num, ci, end_ci) ==
    IF ci > end_ci THEN 0
    ELSE RefValue(rows, month_count, at, row_num, ci).v
         + SumRowValue(rows, month_count, at, row_num, ci + 1, end_ci)

RECURSIVE SumColValue(_, _, _, _, _, _)
SumColValue(rows, month_count, at, ref_ci, rnum, last) ==
    IF rnum > last THEN 0
    ELSE RefValue(rows, month_count, at, rnum, ref_ci).v
         + SumColValue(rows, month_count, at, ref_ci, rnum + 1, last)

RECURSIVE AddSubTotal(_, _, _, _, _)
AddSubTotal(rows, month_count, at, matches, k) ==
    IF k > Len(matches) THEN 0
    ELSE LET m == matches[k]
             valf == RefValue(rows, month_count, at, StrToInt(m.row),
                              col_letters_to_index(m.col)).v
         IN  (IF m.sign = "-" THEN -valf ELSE valf)
             + AddSubTotal(rows, month_count, at, matches, k + 1)

\* the first of two matches that matched
FirstMatch(m, n) == IF m.ok THEN m ELSE n

\* the first value that is there
FirstValue(x, y) == IF x.has THEN x ELSE y

\* the branches of step 2 after the direct reference: row sum, column sum,
\* additive expression
RangeValue(rows, month_count, at, r, c, matches) ==
    IF r.ok /\ 1 <= StrToInt(r.row) /\ StrToInt(r.row) <= Len(rows)
    THEN [v |-> SumRowValue(rows, month_count, at, StrToInt(r.row),
                            Min(col_letters_to_index(r.col), col_letters_to_index(r.col2)),
                            Max(col_letters_to_index(r.col), col_letters_to_index(r.col2)))
                * r.mult,
          has |-> TRUE]
    ELSE IF c.ok
    THEN [v |-> SumColValue(rows, month_count, at, col_letters_to_index(c.col),
                            Min(StrToInt(c.row), StrToInt(c.row2)),
                            Max(StrToInt(c.row), StrToInt(c.row2)))
                * c.mult,
          has |-> TRUE]
    ELSE IF Len(matches) > 0
    THEN [v |-> AddSubTotal(rows, month_count, at, matches, 1), has |-> TRUE]
    ELSE NoValue

\* the value a direct reference d reads
DirectValue(rows, month_count, at, d) ==
    IF d.ok
    THEN RefValue(rows, month_count, at, StrToInt(d.row), col_letters_to_index(d.col))
    ELSE NoValue

\* the value step 2 computes for the formula of the cell at `at`: [has, v]
ComputedValue(rows, month_count, at, formula) ==
    FirstValue(DirectValue(rows, month_count, at,
                           FirstMatch(DirectRef0(formula), DirectRef1(formula))),
               RangeValue(rows, month_count, at,
                          FirstMatch(SumRow(formula, TRUE), SumRow(formula, FALSE)),
                          FirstMatch(SumCol(formula, TRUE), SumCol(formula, FALSE)),
                          AddSubFindAll(formula, 1)))

\* office:value of the cell at `at` when step 2 has visited it
CachedValueOf(rows, month_count, at, cell) ==
    IF /\ cell.tag = "cell"
       /\ is_totals_col(TableCellIndex(rows[at[1]].cells, at[2]), month_count)
       /\ cell.formula # <<>>
    THEN FirstValue(ComputedValue(rows, month_count, at, cell.formula), OwnValue(cell))
    ELSE OwnValue(cell)

CachedValue(rows, month_count, at) ==
    CachedValueOf(rows, month_count, at, rows[at[1]].cells[at[2]])

\* cell.set(office:value-type, 'float'), cell.set(office:value, ...)
WithValue(cell, cached) ==
    IF cached.has THEN [cell EXCEPT !.vtype = "float", !.value = cached.v] ELSE cell

\* step 2: the rows with the computed values written
CacheRows(rows, month_count) ==
    AsList([r \in 1..Len(rows) |->
        [rows[r] EXCEPT !.cells =
            AsList([q \in 1..Len(rows[r].cells) |->
                WithValue(rows[r].cells[q], CachedValue(rows, month_count, <<r, q>>))])]])

\* ensure_bordered_clone for each name in turn: the automatic styles
RECURSIVE EnsureClones(_, _, _)
EnsureClones(auto, names, k) ==
    IF k > Len(names) THEN auto
    ELSE EnsureClones(ensure_bordered_clone(auto, names[k])[1], names, k + 1)

\* the name ensure_bordered_clone returned for a style name, read from the
\* automatic styles left by the calls (a repeated call for one name changes
\* nothing, and no style name of a cell ends in _BORDERED before the pass)
BorderedName(auto, sname) ==
    IF sname # <<>> /\ FindCellStyle(auto, sname \o S_BORDERED) # 0
    THEN sname \o S_BORDERED ELSE sname

\* the rows with the cells at the positions in `chosen` given the bordered
\* name of Name(cell)
Restyled(rows, auto, chosen, Name(_)) ==
    AsList([r \in 1..Len(rows) |->
        [rows[r] EXCEPT !.cells =
            AsList([q \in 1..Len(rows[r].cells) |->
                IF <<r, q>> \in chosen
                THEN [rows[r].cells[q] EXCEPT
                         !.style = BorderedName(auto, Name(rows[r].cells[q]))]
                ELSE rows[r].cells[q]])]])

StyleOf(cell) == cell.style

\* the rows restyled under the automatic styles the clones left
BorderWith(rows, auto, styled) == [rows |-> Restyled(rows, auto, styled, StyleOf), auto |-> auto]

BorderStyled(d, styled) ==
    BorderWith(d.rows,
               EnsureClones(d.auto,
                            FirstSeenOrder(styled, LAMBDA q : d.rows[q[1]].cells[q[2]].style),
                            1),
               styled)

\* step 1: bordered clones for the styled cells of the totals columns;
\* d is [rows, auto]
BorderRows(d, month_count) ==
    BorderStyled(d, {q \in TotalsColumnCells(d.rows, month_count) :
                        d.rows[q[1]].cells[q[2]].style # <<>>})

\* the POS or NEG name of a cash cell from its cached value
SignedName(cell) ==
    cash_root(cell.style) \o (IF cell.value < 0 THEN S_NEG_CELL ELSE S_POS_CELL)

\* root_POS_CELL then root_NEG_CELL for each root in turn
PosNegNames(roots) ==
    AsList([i \in 1..(2 * Len(roots)) |->
               roots[(i + 1) \div 2] \o (IF i % 2 = 1 THEN S_POS_CELL ELSE S_NEG_CELL)])

EnforceWith(rows, auto, cash) == [rows |-> Restyled(rows, auto, cash, SignedName), auto |-> auto]

EnforceCash(d, cash) ==
    EnforceWith(d.rows,
                EnsureClones(d.auto,
                             PosNegNames(FirstSeenOrder(cash,
                                 LAMBDA q : cash_root(d.rows[q[1]].cells[q[2]].style))),
                             1),
                cash)

\* step 3: POS or NEG bordered style from the cached value
EnforceRows(d, month_count) ==
    EnforceCash(d, {q \in TotalsColumnCells(d.rows, month_count) :
                       /\ d.rows[q[1]].cells[q[2]].vtype = "float"
                       /\ cash_root(d.rows[q[1]].cells[q[2]].style) # <<>>})

RECURSIVE VisualCols(_, _)
VisualCols(cells, k) ==
    IF k > Len(cells) THEN 0 ELSE cells[k].repeat + VisualCols(cells, k + 1)

\* step 4: a short row gets one repeated cell for the missing columns
NormalizeRows(rows, total_visual_cols) ==
    AsList([r \in 1..Len(rows) |->
        LET visual_cols == VisualCols(rows[r].cells, 1)
        IN  IF visual_cols < total_visual_cols
            THEN RowAppend(rows[r],
                     [BlankCell EXCEPT !.repeat = total_visual_cols - visual_cols])
            ELSE rows[r]])

\* step 5: the end-of-sheet repeater row
RepeaterRow(total_visual_cols) ==
    RowAppend(NewRow("repeater", <<>>), [BlankCell EXCEPT !.repeat = total_visual_cols])

CacheStep(d, month_count) == [d EXCEPT !.rows = CacheRows(d.rows, month_count)]

\* steps 4 and 5 on the outcome d of steps 1 to 3
Finished(d, total_visual_cols) ==
    <<Append(NormalizeRows(d.rows, total_visual_cols), RepeaterRow(total_visual_cols)),
      d.auto>>

\* _post_process_totals_borders(content, month_count, years_count) on the rows and automatic styles of
\* content.xml: <<rows, automatic styles>>
_post_process_totals_borders(rows, auto, month_count, years_count) ==
    Finished(EnforceRows(
                 CacheStep(BorderRows([rows |-> rows, auto |-> ensure_totals_default(auto)],
                                      month_count),
                           month_count),
                 month_count),
             (FirstPeriodCol - 1) + years_count * (month_count + 1))

(***************************************************************************)
(* test_ods_export.py: the stylesheet and the sheet of run_test            *)
(***************************************************************************)
ColumnHeader == <<"C","o","l","u","m","n","H","e","a","d","e","r">>
ce1 == <<"c","e","1">>
RefSheetWidth == 8

test_add_stylesheet ==
    << TableCellStyle(ColumnHeader, SmallBoldText, MiddleNoWrap),
       TableCellStyle(ce1, {}, LeftRight) >>

\* a row with its B cell given and raw empty cells in A and C..H
RefRow(b_cell) ==
    BlankCells(RowAppend(BlankCells(NewRow("ref", <<>>), 1), b_cell), RefSheetWidth - 2)

\* Cell() with value-type float, the value and style CASH0_CELL
RefNumber(value) ==
    [BlankCell EXCEPT !.vtype = "float", !.value = value, !.style = CASH0_CELL]
\* the same with a formula and the cached value "0"
RefFormula(formula) ==
    [BlankCell EXCEPT !.vtype = "float", !.value = 0, !.style = CASH0_CELL,
                      !.formula = formula]

\* rows 1..10 of run_test; the values are carried in whole units
run_test ==
    << BlankCells(NewRow("ref", <<>>), RefSheetWidth),
       BlankCells(NewRow("ref", <<>>), RefSheetWidth),
       BlankCells(NewRow("ref", <<>>), RefSheetWidth),
       RefRow(TextCellOf(ColumnHeader)),
       RefRow(RefNumber(1234)),
       RefRow(RefNumber(-8765)),
       RefRow(RefNumber(4321)),
       RefRow(RefNumber(-4321)),
       RefRow(RefFormula(OfPrefix \o <<"B","8">>)),
       RefRow(RefFormula(OfPrefix \o <<"B","7">>)) >>

(***************************************************************************)
(* test_ods_export.py: _post_process_styles_add_borders; d is [rows, auto] *)
(***************************************************************************)
\* ce1_props.get(attr), "" when the attribute is not set
Ce1Border(auto, attr) ==
    LET st == auto[FindCellStyle(auto, ce1)]
        hit == {pr \in st.children[FindChild(st, "table-cell-properties")].attrs :
                   pr[1] = attr}
    IN  IF hit = {} THEN "" ELSE (CHOOSE pr \in hit : TRUE)[2]

\* if val: props.set(attr, val)
SetIfValue(el, attr, val) == IF val # "" THEN SetAttr(el, attr, val) ELSE el

\* the clone with the left and right borders of ce1, its properties child
\* at index j
TestBorderedAt(src, new_name, j, left, right) ==
    [src EXCEPT !.name = new_name,
                !.children[j] = SetIfValue(SetIfValue(@, "border-left", left),
                                           "border-right", right)]

TestBorderedCopy(auto, src, new_name) ==
    IF FindChild(src, "table-cell-properties") # 0
    THEN TestBorderedAt(src, new_name, FindChild(src, "table-cell-properties"),
                        Ce1Border(auto, "border-left"), Ce1Border(auto, "border-right"))
    ELSE TestBorderedAt([src EXCEPT !.children =
                            Append(@, NewChild("table-cell-properties"))],
                        new_name, Len(src.children) + 1,
                        Ce1Border(auto, "border-left"), Ce1Border(auto, "border-right"))

\* the nested ensure_bordered_clone(src_style_name): <<automatic styles,
\* returned name>>
test_ensure_bordered_clone(auto, src_style_name) ==
    IF src_style_name = <<>> THEN <<auto, src_style_name>>
    ELSE IF FindCellStyle(auto, src_style_name \o S_BORDERED) # 0
    THEN <<auto, src_style_name \o S_BORDERED>>
    ELSE IF FindCellStyle(auto, src_style_name) = 0 THEN <<auto, src_style_name>>
    ELSE <<Append(auto, TestBorderedCopy(auto, auto[FindCellStyle(auto, src_style_name)],
                                         src_style_name \o S_BORDERED)),
           src_style_name \o S_BORDERED>>

\* rows[ridx].find("./table:table-cell[2]"): its position in the row, 0 when
\* the row has no second table-cell
SecondCell(row) ==
    LET ps == TableCellPositions(row.cells, 1) IN IF Len(ps) >= 2 THEN ps[2] ELSE 0

\* the cell at (r, q) given the style name, under the automatic styles, of res
TestStyled(d, r, q, res) ==
    [rows |-> [d.rows EXCEPT ![r].cells[q].style = res[2]], auto |-> res[1]]

TestBorderAt(d, r, q) ==
    IF q = 0 THEN d
    ELSE TestStyled(d, r, q, test_ensure_bordered_clone(d.auto, d.rows[r].cells[q].style))

\* step A: the B cells of the rows ridxs (1-based) get their bordered clones
RECURSIVE TestBorderColumnB(_, _, _)
TestBorderColumnB(d, ridxs, k) ==
    IF k > Len(ridxs) THEN d
    ELSE IF ridxs[k] > Len(d.rows) THEN TestBorderColumnB(d, ridxs, k + 1)
    ELSE TestBorderColumnB(TestBorderAt(d, ridxs[k], SecondCell(d.rows[ridxs[k]])),
                           ridxs, k + 1)

\* mutant of TestCopyFrom: the referenced value is not copied
TestCopyNothing(rows, r, q, ref_cell) == rows

\* cell.set(value-type, vtype) if vtype, cell.set(value, val) if val is not None
TestCopyFrom(rows, r, q, ref_cell) ==
    [rows EXCEPT ![r].cells[q].vtype = IF ref_cell.vtype # "" THEN ref_cell.vtype ELSE @,
                 ![r].cells[q].value = IF OwnValue(ref_cell).has THEN ref_cell.value ELSE @]

TestCopyAt(rows, r, q, row_num, k) ==
    IF k = 0 THEN rows ELSE TestCopyFrom(rows, r, q, rows[row_num].cells[k])

\* the cell at (r, q) after step B, m the direct-reference match of its formula
TestRefCopy(rows, r, q, m) ==
    IF ~m.ok THEN rows
    ELSE IF StrToInt(m.row) < 1 \/ StrToInt(m.row) > Len(rows) THEN rows
    ELSE TestCopyAt(rows, r, q, StrToInt(m.row),
                    find_cell_by_index(rows[StrToInt(m.row)], col_letters_to_index(m.col)))

\* step B: the formula cells in document order, each reading the tree as the
\* cells before it left it
RECURSIVE TestCacheRefs(_, _)
TestCacheNext(rows, todo, at) ==
    TestCacheRefs(TestRefCopy(rows, at[1], at[2],
                              FirstMatch(DirectRef0(rows[at[1]].cells[at[2]].formula),
                                         DirectRef1(rows[at[1]].cells[at[2]].formula))),
                  todo \ {at})
TestCacheRefs(rows, todo) ==
    IF todo = {} THEN rows ELSE TestCacheNext(rows, todo, FirstPosition(todo))

TestCacheStep(d) ==
    [d EXCEPT !.rows = TestCacheRefs(d.rows,
                           {q \in TableCells(d.rows) :
                               d.rows[q[1]].cells[q[2]].formula # <<>>})]

\* enforce_pos_neg_bordered(cell_elem) with the names the two clones returned
TestEnforceSet(d, r, q, pos, neg) ==
    TestStyled(d, r, q, <<neg[1], IF d.rows[r].cells[q].value < 0 THEN neg[2] ELSE pos[2]>>)

TestEnforceWith(d, r, q, pos) ==
    TestEnforceSet(d, r, q, pos, test_ensure_bordered_clone(pos[1], CASH0_NEG_CELL))

TestEnforceAt(d, r, q) ==
    IF q = 0 THEN d
    ELSE IF d.rows[r].cells[q].style = <<>> \/ d.rows[r].cells[q].vtype # "float" THEN d
    ELSE TestEnforceWith(d, r, q, test_ensure_bordered_clone(d.auto, CASH0_POS_CELL))

\* step C: POS or NEG style from the cached value for the B cells of ridxs
RECURSIVE TestEnforceColumnB(_, _, _)
TestEnforceColumnB(d, ridxs, k) ==
    IF k > Len(ridxs) THEN d
    ELSE IF ridxs[k] > Len(d.rows) THEN TestEnforceColumnB(d, ridxs, k + 1)
    ELSE TestEnforceColumnB(TestEnforceAt(d, ridxs[k], SecondCell(d.rows[ridxs[k]])),
                            ridxs, k + 1)

\* step D: the repeater row covering A..H
TestFinished(d) == <<Append(d.rows, RepeaterRow(RefSheetWidth)), d.auto>>

\* _post_process_styles_add_borders(content) on the rows and automatic styles
\* of content.xml: <<rows, automatic styles>>
_post_process_styles_add_borders(rows, auto) ==
    IF FindCellStyle(auto, ce1) = 0 THEN <<rows, auto>>
    ELSE IF FindChild(auto[FindCellStyle(auto, ce1)], "table-cell-properties") = 0
    THEN <<rows, auto>>
    ELSE TestFinished(
             TestEnforceColumnB(
                 TestCacheStep(TestBorderColumnB([rows |-> rows, auto |-> auto],
                                                 <<4, 5, 6, 7, 8, 9, 10>>, 1)),
                 <<5, 6, 7, 8, 9, 10>>, 1))

(***************************************************************************)
(* Inputs: the query results and parameters of one run                     *)
(***************************************************************************)
CashTypes == {Trade, Tax, Money}
Letter(i) == <<UpperLetters[i]>>

Cat(code, polarity, ncodes, scale) ==
    [CategoryCode |-> code, ncodes |-> ncodes,
     scale |-> scale, Category |-> <<"n">> \o code, CashPolarityCode |-> polarity]

TotalDef(code, sources) ==
    [CategoryCode |-> code, Category |-> <<"n">> \o code, sources |-> sources]

Expr(template, format) ==
    [CategoryCode |-> <<"E">>, Category |-> <<"e">>, Expression |-> template,
     Format |-> format]

YearLists == {<<1>>, <<1, 2>>}
CalendarMonths == [i \in 1..12 |-> i]

BaseRepo ==
    [categories |-> [t \in CashTypes |-> <<>>],
     months |-> [i \in 1..MonthCount |-> i],
     years |-> <<1>>,
     has_categories_by_type |-> FALSE,
     totals_by_type |-> [t \in CashTypes |-> <<>>],
     category_totals |-> <<>>,
     expressions |-> <<>>,
     bank_accounts |-> <<>>,
     include_tax_accruals |-> FALSE,
     vat_recurrence |-> <<>>,
     include_active |-> FALSE,
     vat_recurrence_accruals |-> <<>>,
     vat_period_totals |-> <<>>,
     vat_period_accruals |-> <<>>,
     balance_sheet |-> <<>>,
     include_bank_balances |-> FALSE,
     include_vat_details |-> FALSE,
     include_balance_sheet |-> FALSE,
     family |-> "none"]

\* Trade categories A, B, ...: the first with every polarity and 0..MaxCodes
\* cash codes, the others with every polarity and at most one cash code
TradeShapes ==
    UNION {{sh \in [1..n -> (Expense..Neutral) \X (0..MaxCodes)] :
               \A i \in 2..n : sh[i][2] <= 1} : n \in 0..MaxCats}
CatsOf(shape, scale) ==
    AsList([i \in DOMAIN shape |-> Cat(Letter(i), shape[i][1], shape[i][2], scale)])

\* the year lists and value signs of the category inputs
YearsAndScales == {<<ys, sc>> \in YearLists \X {1, -1} : Len(ys) = 1 \/ sc = 1}

CategoryRepos ==
    {[BaseRepo EXCEPT !.family = "categories", !.years = p[1],
                      !.categories = [@ EXCEPT ![Trade] = CatsOf(sh, p[2])]] :
        p \in YearsAndScales, sh \in TradeShapes}

TwoTrade == <<Cat(<<"A">>, Expense, 2, 1), Cat(<<"B">>, Income, 1, 1)>>
MoneyOptions == {<<>>, <<Cat(<<"M">>, Neutral, 1, 1), Cat(<<"N">>, Income, 2, -1)>>}
\* the third list has a category whose code is blank
TaxOptions ==
    {<<>>,
     <<Cat(<<"X">>, Expense, 1, 1), Cat(<<"Y">>, Expense, 0, 1)>>,
     <<Cat(<<" ">>, Income, 1, 1), Cat(<<"Y">>, Expense, 1, 1)>>}
TotalsByTypeOptions == {<<>>, <<TotalDef(<<"G">>, <<>>), TotalDef(<<"H">>, <<>>)>>}
CategoryTotalOptions ==
    {<<>>,
     <<TotalDef(<<"G">>, <<<<"A">>, <<"B">>>>)>>,
     <<TotalDef(<<"G">>, <<<<"A">>, <<"X">>>>), TotalDef(<<"H">>, <<<<"G">>, <<"M">>>>)>>,
     <<TotalDef(<<"G">>, <<<<"G">>, <<"A">>>>)>>}

SectionRepos ==
    {[BaseRepo EXCEPT !.family = "sections",
                      !.categories = [t \in CashTypes |->
                          CASE t = Trade -> TwoTrade [] t = Money -> mo [] OTHER -> tx],
                      !.has_categories_by_type = bt,
                      !.totals_by_type = [t \in CashTypes |->
                          IF t = Trade THEN tt ELSE <<>>],
                      !.category_totals = ct] :
        mo \in MoneyOptions, tx \in TaxOptions,
        bt \in BOOLEAN, tt \in TotalsByTypeOptions, ct \in CategoryTotalOptions}

Templates ==
    {<<"[","A","]"," ","-"," ","[","B","]">>,
     <<"[","n","A","]","-","[","n","B","]">>,
     <<"i","f","(","[","A","]","=","0",",","0",",","[","B","]","/","[","A","]",")">>,
     <<"[","A","]">>,
     <<"[","B","]","*","-","1">>,
     <<"[","n","G","]"," ","+"," ","[","Z","]">>}
Formats == {<<>>, <<"C","a","s","h","0">>, <<"P","c","t","1">>}
ExpressionTrade == {<<Cat(<<"A">>, Income, 3, 1)>>,
                    <<Cat(<<"A">>, Expense, 3, 1), Cat(<<"B">>, Income, 1, 1)>>}

ExpressionRepos ==
    {[BaseRepo EXCEPT !.family = "expressions",
                      !.categories = [@ EXCEPT ![Trade] = tr],
                      !.category_totals = ct,
                      !.expressions = <<Expr(tp, fm)>>] :
        tr \in ExpressionTrade, tp \in Templates, fm \in Formats,
        ct \in {<<>>, <<TotalDef(<<"G">>, <<<<"A">>, <<"B">>>>)>>}}

\* two expression rows formatted Cash2: the second negates or does not
Cash2 == <<"C","a","s","h","2">>
CashPairRepos ==
    {[BaseRepo EXCEPT !.family = "expressions",
                      !.categories = [@ EXCEPT ![Trade] = tr],
                      !.expressions = <<Expr(<<"[","A","]">>, Cash2), Expr(tp, Cash2)>>] :
        tr \in {<<Cat(<<"A">>, Income, 1, 1), Cat(<<"B">>, Income, 1, 1)>>,
                <<Cat(<<"A">>, Expense, 3, 1), Cat(<<"B">>, Income, 1, 1)>>},
        tp \in {<<"[","B","]","*","-","1">>, <<"[","A","]"," ","-"," ","[","B","]">>}}

\* the months of a year that have a balance
BankPresence ==
    {1..k : k \in {0, 6, 11, 12}} \cup {{k} : k \in {1, 6, 12}} \cup {7..12}

Balance(year_num, month_num) == 1000 * year_num + month_num

Account(code, years, present) ==
    [balances |-> [pr \in {<<years[i], m>> : i \in DOMAIN years, m \in present} |->
                      Balance(pr[1], pr[2])],
     AccountCode |-> code, AccountName |-> <<"n">> \o code]

BankRepos ==
    {[BaseRepo EXCEPT !.family = "bank", !.years = ys, !.months = CalendarMonths,
                      !.include_bank_balances = TRUE,
                      !.bank_accounts =
                          IF n = 0 THEN <<>>
                          ELSE IF n = 1 THEN <<Account(<<"K">>, ys, present)>>
                          ELSE <<Account(<<"K">>, ys, present),
                                 Account(<<"L">>, ys, 1..12)>>] :
        ys \in YearLists, present \in BankPresence, n \in 0..2}

\* the months, in entry order, for which an asset has an entry in a year
EntryMonths == {<<>>, <<1>>, <<6>>, <<9, 3>>, <<12, 6, 1>>}

\* the balance of an entry: 0 in month 6
EntryBalance(year_num, month_num) == IF month_num = 6 THEN 0 ELSE 100 * year_num + month_num

\* the entries of one asset over the given years
RECURSIVE AssetEntries(_, _, _)
AssetEntries(code, year_nums, entry_months) ==
    IF Len(year_nums) = 0 THEN <<>>
    ELSE AsList([i \in 1..Len(entry_months) |->
                    [YearNumber |-> Head(year_nums), AssetCode |-> code,
                     AssetName |-> <<"n">> \o code, MonthNumber |-> entry_months[i],
                     Balance |-> EntryBalance(Head(year_nums), entry_months[i])]])
         \o AssetEntries(code, Tail(year_nums), entry_months)

\* no asset, the asset K, or K and L with the entries of L between those of
\* K; with `gap`, K has no entry in the last year
BalanceRepos ==
    {[BaseRepo EXCEPT !.family = "balance", !.years = ys, !.months = CalendarMonths,
                      !.include_balance_sheet = TRUE,
                      !.balance_sheet =
                          LET k_years == IF gap THEN SubSeq(ys, 1, Len(ys) - 1) ELSE ys
                          IN  IF n = 0 THEN <<>>
                              ELSE IF n = 1 THEN AssetEntries(<<"K">>, k_years, em)
                              ELSE AssetEntries(<<"K">>, <<Head(ys)>>, em)
                                   \o AssetEntries(<<"L">>, ys, <<2, 1>>)
                                   \o (IF Len(k_years) = 0 THEN <<>>
                                       ELSE AssetEntries(<<"K">>, Tail(k_years), em))] :
        ys \in YearLists, em \in EntryMonths, n \in 0..2, gap \in BOOLEAN}

\* the value of a column of the k-th VAT period of a year
VatAmount(column, year_num, k) ==
    (IF column \in AccrualColumns THEN 1000 ELSE 2000) + 100 * year_num + k

\* n periods of one year, starting in the months 1..n; the last is not yet
\* started when `open` holds
VatPeriods(columns, year_num, n, open) ==
    AsList([k \in 1..n |->
        [YearNumber |-> year_num, started |-> ~(open /\ k = n),
         vals |-> [c \in columns |-> VatAmount(c, year_num, k)], StartMonth |-> k]])

RECURSIVE VatPeriodsOfYears(_, _, _, _)
VatPeriodsOfYears(columns, year_nums, n, open) ==
    IF Len(year_nums) = 0 THEN <<>>
    ELSE VatPeriods(columns, Head(year_nums), n, open /\ Len(year_nums) = 1)
         \o VatPeriodsOfYears(columns, Tail(year_nums), n, open)

\* one accrual row per year, its ExportSalesVat NULL
VatAccruals(year_nums) ==
    AsList([i \in 1..Len(year_nums) |->
        [YearNumber |-> year_nums[i],
         vals |-> [c \in AccrualColumns \ {"ExportSalesVat"} |-> 10 * year_nums[i]]]])

\* the numbers of VAT recurrence periods per year: none, yearly, one per
\* month of the list, quarterly
RecurrencesPerYear == {0, 1, MonthCount, 4}

VatRepos ==
    {[BaseRepo EXCEPT !.family = "vat", !.years = ys,
                      !.include_vat_details = TRUE,
                      !.include_active = fl[1],
                      !.include_tax_accruals = fl[3],
                      !.vat_recurrence =
                          VatPeriodsOfYears({RecurrenceColumns[i] : i \in 1..10}, ys, n, fl[2]),
                      !.vat_recurrence_accruals = VatAccruals(ys),
                      !.vat_period_totals =
                          VatPeriodsOfYears({MonthlyColumns[i] : i \in 1..9}, ys,
                                            MonthCount + 1, fl[2]),
                      !.vat_period_accruals = VatAccruals(ys)] :
        ys \in YearLists, n \in RecurrencesPerYear,
        fl \in {<<TRUE, TRUE, FALSE>>, <<FALSE, TRUE, TRUE>>, <<FALSE, FALSE, FALSE>>}}

\* the run of test_ods_export.py, which reads nothing from the database
RefRepos == {[BaseRepo EXCEPT !.family = "reftest"]}

\* a total definition whose name is given
NamedTotal(code, name, sources) ==
    [CategoryCode |-> code, Category |-> name, sources |-> sources]

\* the total definitions: none, G named nG, G named as the code A, G named
\* as the category nA
TokenTotals ==
    {<<>>,
     <<TotalDef(<<"G">>, <<<<"A">>, <<"B">>>>)>>,
     <<NamedTotal(<<"G">>, <<"A">>, <<<<"B">>>>)>>,
     <<NamedTotal(<<"G">>, <<"n","A">>, <<<<"B">>>>)>>}

TokenRepos ==
    {[BaseRepo EXCEPT !.family = "expressions",
                      !.categories = [@ EXCEPT ![Trade] = TwoTrade],
                      !.category_totals = ct] : ct \in TokenTotals}

\* templates with a repeated token, a token with inner whitespace and a
\* token that is the code of another token's name
TokenTemplates ==
    Templates \cup
    {<<"[","n","G","]","-","[","B","]","+","[","n","G","]">>,
     <<"[","n","A","]","+","[","A","]">>,
     <<"[","A","]","+","[","n","A","]">>,
     <<"[","n","B","]","/","[","n","A","]","-","[","n","B","]">>,
     <<"[","n","A","]","-","[","B","]">>,
     <<" ","[","B","]","+","1"," ">>,
     <<"["," ","A"," ","]","+","[","n","B","]">>}

\* one expression row whose template has a token with inner whitespace, a
\* token that is another token's code, or a repeated token
SubstitutionTemplates ==
    {<<"["," ","A"," ","]","+","[","n","B","]">>,
     <<"[","n","A","]","+","[","A","]">>,
     <<"[","n","B","]","/","[","n","A","]","-","[","n","B","]">>}

SubstitutionRepos ==
    {[r EXCEPT !.expressions = <<Expr(tp, <<>>)>>] :
        r \in TokenRepos, tp \in SubstitutionTemplates}

Repos ==
    CategoryRepos \cup SectionRepos \cup ExpressionRepos \cup CashPairRepos
        \cup SubstitutionRepos \cup BankRepos \cup BalanceRepos \cup VatRepos \cup RefRepos

(***************************************************************************)
(* Serialisation, style materialisation and the value-cache pass           *)
(***************************************************************************)
\* inject_content_styles(content_xml, strip_defaults) takes two parameters;
\* apply_styles_bytes passes strip_defaults, lang and country by keyword
InjectorParameters == {"content_xml", "strip_defaults"}
ApplyStylesKeywords == {"strip_defaults", "lang", "country"}
\* the call inside apply_styles_bytes raises TypeError
apply_styles_bytes_raises == ~(ApplyStylesKeywords \subseteq InjectorParameters)

\* content.xml after inject_content_styles
Injected(c, res) ==
    [c EXCEPT !.rows = res[1], !.styles = res[2], !.injections = @ + 1,
              !.first = IF c.injections = 0 THEN res[2] ELSE @]

Materialised(c) == Injected(c, inject_content_styles(c.rows, c.styles))

\* content.xml after _post_process_totals_borders
PostProcessed(c, res) == [c EXCEPT !.rows = res[1], !.styles = res[2], !.cached = TRUE]

Cached(c, month_count, years_count) ==
    PostProcessed(c, _post_process_totals_borders(c.rows, c.styles, month_count, years_count))

Untouched == <<sb, appendCalls, observed, totals_row_by_category, registered, repo,
               diagnostics, colIndex, colName, colParsed, called>>

\* save_cashflow: doc.save, apply_styles_bytes, _post_process_totals_borders
SaveCashflow ==
    /\ pc = "built"
    /\ IF apply_styles_bytes_raises
       THEN pc' = "failed" /\ content' = content
       ELSE /\ pc' = "returned"
            /\ content' = Cached(Materialised(DocumentBytes(sb.table, add_stylesheet)),
                                 Len(repo.months), Len(repo.years))
    /\ UNCHANGED Untouched

\* doc.save(buf) by a caller that then runs the two passes itself
DocSave ==
    /\ pc = "built"
    /\ content' = DocumentBytes(sb.table, add_stylesheet)
    /\ pc' = "saved"
    /\ UNCHANGED Untouched

\* apply_styles_bytes(content, locale) under try/except Exception: pass
TryApplyStyles(c) == IF apply_styles_bytes_raises THEN c ELSE Materialised(c)

\* apply_styles_bytes(ods_bytes, locale, strip_defaults): the patched
\* content.xml, or the exception the call ends with
apply_styles_bytes(c) ==
    IF apply_styles_bytes_raises
    THEN [content |-> NoContent, raised |-> "TypeError"]
    ELSE [content |-> Materialised(c), raised |-> ""]

\* test_ods_export_numbers.py, _build_add_number_cell_check_doc: four empty
\* cells, E1 = 1234.5678 (carried in whole units) and F1 = E1*-1, both given
\* style CASH0_CELL
AddNumberCellCheck ==
    << add_number_cell(
           add_number_cell(BlankCells(NewRow("ref", <<>>), 4), 1234, CASH0_CELL, <<>>),
           0, CASH0_CELL, <<"E","1","*","-","1">>) >>

\* content.xml after _post_process_styles_add_borders
TestCached(c) ==
    PostProcessed(c, _post_process_styles_add_borders(c.rows, c.styles))

\* test_ods_export.py main: add_stylesheet, run_test, doc.save,
\* apply_styles_bytes with its exception swallowed, and
\* _post_process_styles_add_borders
TestOdsExportMain ==
    /\ pc = "reftest"
    /\ content' = TestCached(TryApplyStyles(DocumentBytes(run_test, test_add_stylesheet)))
    /\ pc' = "tested"
    /\ UNCHANGED Untouched

InjectContentStyles ==
    /\ pc = "saved"
    /\ ~content.cached
    /\ content.injections < MaxInjections
    /\ content' = Materialised(content)
    /\ UNCHANGED pc
    /\ UNCHANGED Untouched

PostProcessTotalsBorders ==
    /\ pc = "saved"
    /\ content.injections >= 1
    /\ ~content.cached
    /\ content' = Cached(content, Len(repo.months), Len(repo.years))
    /\ UNCHANGED pc
    /\ UNCHANGED Untouched

\* no helper function has been called on its own
NoCall == [fn |-> "none", args |-> <<>>, result |-> <<>>]

(***************************************************************************)
(* Specification of a run                                                  *)
(***************************************************************************)
Init ==
    /\ repo \in Repos
    /\ pc = IF repo.family = "reftest" THEN "reftest" ELSE "header"
    /\ sb = NewSheetBuilder
    /\ appendCalls = 0
    /\ observed = 0
    /\ totals_row_by_category = <<>>
    /\ registered = <<>>
    /\ content = NoContent
    /\ diagnostics = <<>>
    /\ colIndex = 0
    /\ colName = <<>>
    /\ colParsed = 0
    /\ called = NoCall

Next ==
    \/ BuildHeader
    \/ RenderCategoriesAndSummary
    \/ RenderSummaryAfterCategories
    \/ RenderSummaryTotalsBlock
    \/ RenderTotalsFormula
    \/ RenderExpressions
    \/ RenderBankBalances
    \/ RenderVatDetails
    \/ RenderBalanceSheet
    \/ SkipSection
    \/ SaveCashflow
    \/ DocSave
    \/ TestOdsExportMain
    \/ InjectContentStyles
    \/ PostProcessTotalsBorders

Spec == Init /\ [][Next]_vars

(***************************************************************************)
(* Specification of a SheetBuilder under arbitrary appends                 *)
(***************************************************************************)
SheetRows ==
    {SpacerRow,
     LabelRow("category", <<"A">>, SomeText, <<>>),
     add_number_cell(LabelRow("code", <<"A">>, SomeText, SomeText), 5, <<>>, <<>>)}

SheetInit ==
    /\ repo = BaseRepo
    /\ pc = "sheet"
    /\ sb = NewSheetBuilder
    /\ appendCalls = 0
    /\ observed = 0
    /\ totals_row_by_category = <<>>
    /\ registered = <<>>
    /\ content = NoContent
    /\ diagnostics = <<>>
    /\ colIndex = 0
    /\ colName = <<>>
    /\ colParsed = 0
    /\ called = NoCall

SheetAppendRow ==
    /\ pc = "sheet"
    /\ appendCalls < MaxRows
    /\ \E row \in SheetRows : sb' = append_row(sb, row)
    /\ appendCalls' = appendCalls + 1
    /\ UNCHANGED <<observed, totals_row_by_category, registered, repo, pc, content,
                   diagnostics, colIndex, colName, colParsed, called>>

SheetCurrentRowIndex ==
    /\ pc = "sheet"
    /\ observed' = current_row_index(sb)
    /\ UNCHANGED <<sb, appendCalls, totals_row_by_category, registered, repo, pc,
                   content, diagnostics, colIndex, colName, colParsed, called>>

SheetNext == SheetAppendRow \/ SheetCurrentRowIndex

SpecSheet == SheetInit /\ [][SheetNext]_vars

(***************************************************************************)
(* Specification of the column-letter round trip                           *)
(***************************************************************************)
ColInit ==
    /\ colIndex \in 1..MaxColIndex
    /\ colName = <<>>
    /\ colParsed = 0
    /\ repo = BaseRepo
    /\ pc = "col"
    /\ sb = NewSheetBuilder
    /\ appendCalls = 0
    /\ observed = 0
    /\ totals_row_by_category = <<>>
    /\ registered = <<>>
    /\ content = NoContent
    /\ diagnostics = <<>>
    /\ called = NoCall

ColLetter ==
    /\ pc = "col"
    /\ colName = <<>>
    /\ colName' = _col_letter(colIndex)
    /\ UNCHANGED <<sb, appendCalls, observed, totals_row_by_category, registered, repo,
                   pc, content, diagnostics, colIndex, colParsed, called>>

ColLettersToIndex ==
    /\ pc = "col"
    /\ colName # <<>>
    /\ colParsed = 0
    /\ colParsed' = col_letters_to_index(colName)
    /\ UNCHANGED <<sb, appendCalls, observed, totals_row_by_category, registered, repo,
                   pc, content, diagnostics, colIndex, colName, called>>

ColNext == ColLetter \/ ColLettersToIndex

SpecCol == ColInit /\ [][ColNext]_vars

(***************************************************************************)
(* Data source selection: factory.py, postgres_repository.py, initialise_ods *)
(***************************************************************************)
\* str.lower()
Lower(ch) ==
    IF IsUpper(ch)
    THEN LowerLetters[CHOOSE i \in 1..AlphabetSize : UpperLetters[i] = ch]
    ELSE ch
LowerStr(s) == AsList([k \in 1..Len(s) |-> Lower(s[k])])

S_postgres == <<"p","o","s","t","g","r","e","s">>

\* create_repo(conn_str, params), params.get("dbKind") given as db_kind: the
\* class of the repository constructed; neither constructor raises
create_repo(conn_str, db_kind) ==
    IF \/ LowerStr(db_kind) = S_postgres
       \/ StartsWith(LowerStr(conn_str), S_postgres \o <<":","/","/">>)
       \/ Contains(conn_str, <<"h","o","s","t","=">>)
    THEN "PostgresRepository"
    ELSE "SqlServerRepository"

\* the repository methods initialise_ods calls, in order
InitialQueries ==
    <<"get_active_period", "get_active_years", "get_months", "get_company_name">>

\* initialise_ods(payload): the repository class, the repository methods
\* called, and the exception the call ends with and where it was raised.
\* Every method of PostgresRepository raises NotImplementedError.
initialise_ods(conn_str, db_kind) ==
    IF create_repo(conn_str, db_kind) = "PostgresRepository"
    THEN [repo |-> "PostgresRepository", raised |-> "NotImplementedError",
          calls |-> SubSeq(InitialQueries, 1, 1), raised_by |-> InitialQueries[1]]
    ELSE [repo |-> "SqlServerRepository", raised |-> "",
          calls |-> InitialQueries, raised_by |-> ""]

(***************************************************************************)
(* Specification of the helper functions called on their own               *)
(***************************************************************************)
CallInit ==
    /\ called = NoCall
    /\ repo = BaseRepo
    /\ pc = "call"
    /\ sb = NewSheetBuilder
    /\ appendCalls = 0
    /\ observed = 0
    /\ totals_row_by_category = <<>>
    /\ registered = <<>>
    /\ content = NoContent
    /\ diagnostics = <<>>
    /\ colIndex = 0
    /\ colName = <<>>
    /\ colParsed = 0

Returned(fn, args, result) ==
    /\ pc = "call"
    /\ called' = [fn |-> fn, args |-> args, result |-> result]
    /\ UNCHANGED <<sb, appendCalls, observed, totals_row_by_category, registered, repo,
                   pc, content, diagnostics, colIndex, colName, colParsed>>

ColsForYearBlock ==
    \E month_count \in 1..MaxMonthCount, year_index \in 0..MaxYearIndex :
        Returned("cols_for_year_block", <<month_count, year_index>>,
                 cols_for_year_block(month_count, year_index))

\* the values, styles and formulas add_number_cell is called with
NumberValues == {-1234, -1, 0, 1, 1234}
NeutralStyles ==
    {<<>>, CASH0_CELL, S_CASH \o <<"2">> \o S_CELL, <<"c","a","s","h","0","_","c","e","l","l">>}
NumberFormulas ==
    {<<>>, <<"E","1","*","-","1">>, <<"-","E","1">>, <<"E","1","+","D","1">>,
     <<"S","U","M","(","[",".","D","7",":",".","D","9","]",")","*","-","1">>,
     <<" ","-","e","1">>}

AddNumberCell ==
    \E value \in NumberValues, style \in NeutralStyles, formula \in NumberFormulas :
        Returned("add_number_cell", <<value, style, formula>>,
                 add_number_cell(NewRow("ref", <<>>), value, style, formula).cells[1])

\* test_cash0_cell_applied_to_numeric_cells: apply_styles_bytes on the
\* document of _build_add_number_cell_check_doc
ApplyStylesBytes ==
    Returned("apply_styles_bytes", AddNumberCellCheck,
             apply_styles_bytes(DocumentBytes(AddNumberCellCheck, <<>>)))

\* cell style names: a prefix, decimals text and a suffix
NamePrefixes == {S_NUM, S_PCT, S_CASH, <<"T","E","X","T">>, <<"N","U","M","E","R","I","C">>}
NameDecimals == {<<>>, <<"0">>, <<"2">>, <<"9">>, <<"1","2">>}
NameSuffixes ==
    {S_CELL, S_POS_CELL, S_NEG_CELL, S_CELL \o S_BORDERED, S_POS_CELL \o S_BORDERED}

\* a row whose only cell carries the style name
StyledRow(name) ==
    <<RowAppend(NewRow("ref", <<>>), [BlankCell EXCEPT !.style = name])>>

\* parse_style_name(name), and the keys of a StyleRegistry after
\* add_from_cell_style_name(name)
ParseStyleName ==
    \E pre \in NamePrefixes, dec \in NameDecimals, suf \in NameSuffixes :
        Returned("parse_style_name", pre \o dec \o suf,
                 [key |-> parse_style_name(pre \o dec \o suf),
                  _keys |-> StyleRegistryKeys(StyledRow(pre \o dec \o suf))])

\* dbKind parameters and connection strings of a job
DbKinds ==
    {<<>>, <<"s","q","l","s","e","r","v","e","r">>, S_postgres,
     <<"P","o","s","t","g","r","e","s">>, <<"m","y","s","q","l">>}
ConnectionStrings ==
    {<<"S","e","r","v","e","r","=","s">>, S_postgres \o <<":","/","/","h">>,
     <<"P","O","S","T","G","R","E","S",":","/","/","h">>,
     <<"h","o","s","t","=","h",";","d","b","n","a","m","e","=","d">>}

\* generate_ods up to the return of initialise_ods; an exception of
\* initialise_ods leaves generate_ods before any SheetBuilder exists
InitialiseOds ==
    \E conn_str \in ConnectionStrings, db_kind \in DbKinds :
        Returned("initialise_ods", <<conn_str, db_kind>>, initialise_ods(conn_str, db_kind))

\* render_expressions, the token loop and the name map of one template:
\* tokens and name_to_code
ExpressionTokens ==
    \E r \in TokenRepos, template \in TokenTemplates :
        LET tokens == ExtractTokens(Strip(template), 1, <<>>)
        IN  Returned("render_expressions", <<r, template>>,
                     [tokens |-> tokens,
                      name_to_code |->
                          AsList([k \in 1..Len(tokens) |-> NameToCode(r, tokens[k])])])

CallNext ==
    \/ ColsForYearBlock
    \/ InitialiseOds
    \/ ParseStyleName
    \/ AddNumberCell
    \/ ApplyStylesBytes
    \/ ExpressionTokens

SpecCall == CallInit /\ [][CallNext]_vars

(***************************************************************************)
(* Properties                                                              *)
(***************************************************************************)
\* C1: from a fresh SheetBuilder, after the k-th append_row (rows without
\* cells included) current_row_index() is exactly k; it is 0 before the first
\* append, and reading it or any other step leaves it alone.
C1_RowCounter ==
    /\ current_row_index(sb) = appendCalls
    /\ appendCalls = 0 => current_row_index(sb) = 0
    /\ observed <= current_row_index(sb)

\* C1 is exercised: MaxRows appends, a row without cells among them, and the
\* counter read after the last one
C1_Witness ==
    /\ appendCalls = MaxRows
    /\ \E k \in 1..Len(sb.table) : Len(sb.table[k].cells) = 0
    /\ \E k \in 1..Len(sb.table) : Len(sb.table[k].cells) > 0
    /\ observed = MaxRows

\* the kinds of the aggregate rows: the Category Total row and the total rows
\* of render_summary_totals_block and render_totals_formula
AggregateKinds == {"cattotal", "totalsblock", "total"}

\* C2: at every point of a build, for every code c of the Totals Registry,
\* registry[c] is the 1-based position in the table of the row appended as c's
\* aggregate row, whatever rows the other sections appended around it.
C2_RegistryIsRowPosition ==
    \A c \in DOMAIN totals_row_by_category :
        /\ totals_row_by_category[c] \in 1..Len(sb.table)
        /\ sb.table[totals_row_by_category[c]].code = c
        /\ sb.table[totals_row_by_category[c]].kind \in AggregateKinds

\* C2 is exercised: a finished build whose registry points at aggregate rows
\* of all three renderers, with rows of other sections after the last of them
C2_Witness ==
    /\ pc = "built"
    /\ \A kd \in AggregateKinds :
           \E c \in DOMAIN totals_row_by_category :
               /\ totals_row_by_category[c] \in 1..Len(sb.table)
               /\ sb.table[totals_row_by_category[c]].kind = kd
    /\ \A c \in DOMAIN totals_row_by_category :
           totals_row_by_category[c] < Len(sb.table)
    /\ Len(registered) > Cardinality(DOMAIN totals_row_by_category)

\* the category of a Category Total row: the first with the code
CategoryByCode(r, code) ==
    LET cats == AllCategories(r)
    IN  cats[CHOOSE i \in 1..Len(cats) :
                /\ Strip(cats[i].CategoryCode) = code
                /\ \A k \in 1..(i - 1) : Strip(cats[k].CategoryCode) # code]

\* the values of the j-th cash code over the months from the i-th on
RECURSIVE MonthsSum(_, _, _)
MonthsSum(j, months, i) ==
    IF i > Len(months) THEN 0 ELSE BaseValue(j, months[i]) + MonthsSum(j, months, i + 1)

\* the values of the cash codes j..n over the months
RECURSIVE CodesSum(_, _, _)
CodesSum(n, months, j) ==
    IF j > n THEN 0 ELSE MonthsSum(j, months, 1) + CodesSum(n, months, j + 1)

\* X: what the cash codes of a category sum to in a year
YearSum(cat, year_num, months) == cat.scale * year_num * CodesSum(cat.ncodes, months, 1)

PolarityFactor(cat) == IF cat.CashPolarityCode = Expense THEN -1 ELSE 1

\* the column of the total of the y_idx-th year
YearTotalCol(y_idx, month_count) ==
    FirstPeriodCol + (y_idx - 1) * (month_count + 1) + month_count

CellAtCol(row, col) == row.cells[find_cell_by_index(row, col)]

YearTotalIs(cell, expected) == cell.vtype = "float" /\ cell.value = expected

CategoryTotalAsClaimed(row, cat, r) ==
    cat.ncodes >= 1 =>
        \A y_idx \in 1..Len(r.years) :
            YearTotalIs(CellAtCol(row, YearTotalCol(y_idx, Len(r.months))),
                        PolarityFactor(cat) * YearSum(cat, r.years[y_idx], r.months))

\* C3: after render, serialisation, style materialisation and the value-cache
\* pass, the Category Total row of every category with n >= 1 cash codes holds
\* in each year's total column the cached value -X for Expense polarity and X
\* for Income or Neutral, X being the sum of the category's values in the year.
C3_CategoryTotalValue ==
    (pc = "saved" /\ content.cached) =>
        \A k \in 1..Len(content.rows) :
            content.rows[k].kind = "cattotal" =>
                CategoryTotalAsClaimed(content.rows[k],
                                       CategoryByCode(repo, content.rows[k].code), repo)

\* C3's case is reached: the Expense category A with two cash codes worth
\* (100, 200) and (50, 50) in the year; after the whole pipeline its Category
\* Total row holds 400 in the year-total column, where -400 is claimed
C3_Witness ==
    /\ pc = "saved"
    /\ content.cached
    /\ repo.years = <<1>>
    /\ repo.categories[Trade] = <<Cat(<<"A">>, Expense, 2, 1)>>
    /\ \E k \in 1..Len(content.rows) :
           /\ content.rows[k].kind = "cattotal"
           /\ content.rows[k - 2].cells[FirstPeriodCol].value = 100
           /\ content.rows[k - 2].cells[FirstPeriodCol + 1].value = 200
           /\ content.rows[k - 1].cells[FirstPeriodCol].value = 50
           /\ content.rows[k - 1].cells[FirstPeriodCol + 1].value = 50
           /\ CellAtCol(content.rows[k], YearTotalCol(1, MonthCount)).value = 400

\* the cached values of the cells rows[first..last] at a column, summed
RECURSIVE ColumnSum(_, _, _, _)
ColumnSum(rows, col, first, last) ==
    IF first > last THEN 0
    ELSE CellAtCol(rows[first], col).value + ColumnSum(rows, col, first + 1, last)

\* the month columns of the period grid
MonthCols(r) ==
    {c \in FirstPeriodCol..(FirstPeriodCol + PeriodCols(r.years, r.months) - 1) :
        ~is_totals_col(c, Len(r.months))}

MonthTotalsAsClaimed(rows, k, cat, r) ==
    cat.ncodes >= 1 =>
        \A c \in MonthCols(r) :
            CellAtCol(rows[k], c).value =
                PolarityFactor(cat) * ColumnSum(rows, c, k - cat.ncodes, k - 1)

\* C4: in the final document every formula cell of the period grid carries
\* the value of its formula over the cached values of the cells it refers to;
\* stated for the month columns of the Category Total rows, whose formula is
\* the sum of the category's cash-code rows in the column times the polarity
\* factor: none still holds the placeholder 0 when that sum is not 0.
C4_CachedValueInvariant ==
    (pc = "saved" /\ content.cached) =>
        \A k \in 1..Len(content.rows) :
            content.rows[k].kind = "cattotal" =>
                MonthTotalsAsClaimed(content.rows, k,
                                     CategoryByCode(repo, content.rows[k].code), repo)

\* C4's case is reached: after the whole pipeline the first month column of
\* the Category Total row of an Income category with one cash code worth 100
\* in that month still holds the placeholder 0 under its SUM formula
C4_Witness ==
    /\ pc = "saved"
    /\ content.cached
    /\ repo.categories[Trade] = <<Cat(<<"A">>, Income, 1, 1)>>
    /\ repo.years = <<1>>
    /\ \E k \in 1..Len(content.rows) :
           /\ content.rows[k].kind = "cattotal"
           /\ content.rows[k - 1].cells[FirstPeriodCol].value = 100
           /\ content.rows[k].cells[FirstPeriodCol].formula =
                  OfPrefix \o SumText(<<"D">>, k - 1, <<"D">>, k - 1)
           /\ content.rows[k].cells[FirstPeriodCol].value = 0

\* the <<row, position>> of the cell a direct-reference match m names,
\* <<0, 0>> when there is no match or no such cell
RefTargetOf(rows, m) ==
    IF ~m.ok THEN <<0, 0>>
    ELSE IF StrToInt(m.row) \notin 1..Len(rows) THEN <<0, 0>>
    ELSE <<StrToInt(m.row),
           find_cell_by_index(rows[StrToInt(m.row)], col_letters_to_index(m.col))>>

DirectRefTarget(rows, q) ==
    RefTargetOf(rows, FirstMatch(DirectRef0(rows[q[1]].cells[q[2]].formula),
                                 DirectRef1(rows[q[1]].cells[q[2]].formula)))

\* the POS or NEG style names of a cash root for a value, plain and bordered
SignVariants(root, v) ==
    IF v < 0 THEN {root \o S_NEG_CELL, root \o S_NEG_CELL \o S_BORDERED}
    ELSE {root \o S_POS_CELL, root \o S_POS_CELL \o S_BORDERED}

\* a cell that refers to ref_cell carries its cached value and the sign's style
DirectRefCached(cell, ref_cell) ==
    OwnValue(ref_cell).has =>
        /\ cell.vtype = "float"
        /\ cell.value = ref_cell.value
        /\ cash_root(cell.style) # <<>> =>
               cell.style \in SignVariants(cash_root(cell.style), ref_cell.value)

DirectRefHolds(rows, q, t) ==
    t[2] # 0 => DirectRefCached(rows[q[1]].cells[q[2]], rows[t[1]].cells[t[2]])

ExpressionCodes(r, expr) ==
    DistinctCodes(r, ExtractTokens(Strip(expr.Expression), 1, <<>>), 1, <<>>)

\* <<expression, code>> for every code of an expression that is not
\* registered and so is substituted by 0
MissingReferences(r, reg) ==
    UNION {{<<k, c>> : c \in {x \in {ExpressionCodes(r, r.expressions[k])[i] :
                                      i \in 1..Len(ExpressionCodes(r, r.expressions[k]))} :
                                x \notin DOMAIN reg}} :
              k \in 1..Len(r.expressions)}

\* C6: render_expressions emits a missing-reference diagnostic for every
\* unregistered code it substitutes by 0 (exactly one, naming B, for the
\* template "[A] - [B]" with only A registered) and none for a registered code.
C6_MissingReferenceDiagnostics ==
    pc \in {"bank", "vat", "balance_sheet", "built", "saved", "failed"} =>
        /\ {diagnostics[i] : i \in 1..Len(diagnostics)} =
               MissingReferences(repo, totals_row_by_category)
        /\ Len(diagnostics) = Cardinality(MissingReferences(repo, totals_row_by_category))

\* C6's case is reached: the template "[A] - [B]" with A registered at row 10
\* and B not registered; render_expressions has written D10 - 0 in column D and
\* the build is finished, with no diagnostic emitted
C6_Witness ==
    /\ pc = "built"
    /\ Len(repo.expressions) = 1
    /\ repo.expressions[1].Expression = <<"[","A","]"," ","-"," ","[","B","]">>
    /\ DOMAIN totals_row_by_category = {<<"A">>}
    /\ totals_row_by_category[<<"A">>] = 10
    /\ \E k \in 1..Len(sb.table) :
           /\ sb.table[k].kind = "expression"
           /\ sb.table[k].cells[FirstPeriodCol].formula =
                  OfPrefix \o <<"D","1","0"," ","-"," ","0">>
    /\ MissingReferences(repo, totals_row_by_category) = {<<1, <<"B">>>>}
    /\ diagnostics = <<>>

\* the period columns of the sheet
PeriodColumns(r) == FirstPeriodCol..(FirstPeriodCol + PeriodCols(r.years, r.months) - 1)

\* a summary row's cell refers to exactly the registered total row of its
\* category in its own column, or is the literal 0
SummaryCellAsClaimed(cell, code, col, reg) ==
    IF code \in DOMAIN reg
    THEN cell.formula = OfPrefix \o _col_letter(col) \o IntToStr(reg[code])
    ELSE cell.formula = <<>> /\ cell.vtype = "float" /\ cell.value = 0

\* the rows first..last are the summary rows under one summary header
SummaryBlock(table, first, last) ==
    /\ first <= last
    /\ table[first - 1].kind = "summaryhdr"
    /\ \A j \in first..last : table[j].kind = "summary"

PeriodTotalAsClaimed(table, k, r) ==
    \E first \in 2..(k - 1) :
        /\ SummaryBlock(table, first, k - 1)
        /\ \A col \in PeriodColumns(r) :
               table[k].cells[col].formula =
                   OfPrefix \o SumText(_col_letter(col), first, _col_letter(col), k - 1)

\* C7: for two or more categories, in every period column C the summary row
\* of a category refers to exactly the cell {C}{r} of its registered total
\* row r (a literal 0 when the category is not registered), and the Period
\* Total row holds the SUM over column C of exactly the summary rows just
\* written, from the first to the last.
C7_SummaryFormulas ==
    \A k \in 1..Len(sb.table) :
        /\ sb.table[k].kind = "summary" =>
               \A col \in PeriodColumns(repo) :
                   SummaryCellAsClaimed(sb.table[k].cells[col], sb.table[k].code, col,
                                        totals_row_by_category)
        /\ sb.table[k].kind = "periodtotal" => PeriodTotalAsClaimed(sb.table, k, repo)

\* C7 is exercised: a finished build with a Period Total row over summary
\* rows of a registered and of an unregistered category
C7_Witness ==
    /\ pc = "built"
    /\ \E k \in 1..Len(sb.table) : sb.table[k].kind = "periodtotal"
    /\ \E k \in 1..Len(sb.table) :
           /\ sb.table[k].kind = "summary"
           /\ sb.table[k].code \in DOMAIN totals_row_by_category
           /\ sb.table[k].cells[FirstPeriodCol].formula # <<>>
    /\ \E k \in 1..Len(sb.table) :
           /\ sb.table[k].kind = "summary"
           /\ sb.table[k].code \notin DOMAIN totals_row_by_category
           /\ sb.table[k].cells[FirstPeriodCol].formula = <<>>

\* the account of a bank row
AccountByCode(r, code) ==
    r.bank_accounts[CHOOSE i \in 1..Len(r.bank_accounts) :
                        r.bank_accounts[i].AccountCode = code]

\* the carried balance of a year: that of the last month of the year that has
\* one (December's when it is there), 0 when the year has none
ExpectedCarry(bal_map, year_num) ==
    LET ms == {m \in 1..December : <<year_num, m>> \in DOMAIN bal_map}
    IN  IF ms = {} THEN 0
        ELSE bal_map[<<year_num, CHOOSE m \in ms : \A x \in ms : x <= m>>]

BankCarryAsClaimed(row, acct, r) ==
    \A y_idx \in 1..Len(r.years) :
        CellAtCol(row, YearTotalCol(y_idx, Len(r.months))).value =
            ExpectedCarry(get_bank_balances(acct), r.years[y_idx])

\* C8: for every account and year the year-total cell written by
\* render_bank_balances is the month-12 balance when there is one, otherwise
\* the balance of the last month of the year that had one, and 0 only when the
\* year has no balance at all.
C8_BankCarryForward ==
    \A k \in 1..Len(sb.table) :
        sb.table[k].kind = "bank" =>
            BankCarryAsClaimed(sb.table[k], AccountByCode(repo, sb.table[k].code), repo)

\* C8's case is reached: an account with balances in months 1 to 6 only of
\* year 1; its year-total cell holds 0, where the month-6 balance is claimed
C8_Witness ==
    /\ pc = "built"
    /\ repo.years = <<1>>
    /\ Len(repo.bank_accounts) = 1
    /\ DOMAIN get_bank_balances(repo.bank_accounts[1]) = {<<1, m>> : m \in 1..6}
    /\ \E k \in 1..Len(sb.table) :
           /\ sb.table[k].kind = "bank"
           /\ sb.table[k].cells[FirstPeriodCol + 5].value = Balance(1, 6)
           /\ CellAtCol(sb.table[k], YearTotalCol(1, December)).value = 0
           /\ ExpectedCarry(get_bank_balances(repo.bank_accounts[1]), 1) = Balance(1, 6)

\* C9: inject_content_styles applied to its own output leaves the automatic
\* styles as the first application left them: no second number, text,
\* text-properties or map child and no second data or cell style.
C9_InjectionIdempotent ==
    content.injections >= 2 => content.styles = content.first

\* the children of a style with a tag
ChildCount(st, tag) == Cardinality({j \in 1..Len(st.children) : st.children[j].tag = tag})

\* C9's case is reached: a data style that had one number child after the
\* first inject_content_styles has two after the second
C9_Witness ==
    /\ content.injections = 2
    /\ Len(content.styles) = Len(content.first)
    /\ \E i \in 1..Len(content.styles) :
           /\ content.styles[i].name = content.first[i].name
           /\ ChildCount(content.first[i], "number") = 1
           /\ ChildCount(content.styles[i], "number") = 2

\* C10: for every index i in 1..MaxColIndex, col_letters_to_index parses
\* _col_letter(i) back to i, and _col_letter(i) is made of the letters A-Z
\* only (1 -> A, 26 -> Z, 27 -> AA).
C10_ColumnLettersRoundTrip ==
    /\ colName # <<>> =>
           /\ \A k \in 1..Len(colName) : IsUpper(colName[k])
           /\ col_letters_to_index(colName) = colIndex
           /\ colIndex = 1 => colName = <<"A">>
           /\ colIndex = AlphabetSize => colName = <<"Z">>
           /\ colIndex = AlphabetSize + 1 => colName = <<"A", "A">>
    /\ colParsed # 0 => colParsed = colIndex

\* C10 is exercised: the first two-letter name, converted and parsed back,
\* the letter Z having been used for the index before it
C10_Witness ==
    /\ colIndex = AlphabetSize + 1
    /\ colName = <<"A", "A">>
    /\ colParsed = AlphabetSize + 1

\* C11: for every monthCount >= 1 and yearIndex >= 0, cols_for_year_block
\* returns firstColumn = 4 + yearIndex*(monthCount+1) and totalsColumn =
\* firstColumn + monthCount, and is_totals_col accepts totalsColumn
YearBlockAsClaimed(month_count, year_index, result) ==
    /\ result[1] = FirstPeriodCol + year_index * (month_count + 1)
    /\ result[2] = result[1] + month_count
    /\ is_totals_col(result[2], month_count)

C11_YearBlockColumns ==
    called.fn = "cols_for_year_block" =>
        YearBlockAsClaimed(called.args[1], called.args[2], called.result)

\* cols_for_year_block(12, 0) has returned (3, 15), one column left of the
\* first period column D and of the year total column P
C11_Witness ==
    /\ called.fn = "cols_for_year_block"
    /\ called.args = <<December, 0>>
    /\ called.result = <<3, 15>>
    /\ ~is_totals_col(called.result[2], December)
    /\ is_totals_col(called.result[2] + 1, December)

\* a conditional, a comparison or a division: the text of none of the four
\* recognized shapes holds one of these characters
UnrecognizedShape(formula) ==
    \E i \in (Len(OfPrefix) + 1)..Len(formula) : formula[i] \in {"/", ";", "="}

\* the value the renderer gave the cell at position q
PlaceholderValue(q) == sb.table[q[1]].cells[q[2]].value

\* a diagnostic has been recorded for the formula cell at position q
ShapeFlagged(q) == \E i \in 1..Len(diagnostics) : diagnostics[i] = <<"formula", q>>

\* C12: the value-cache pass leaves every formula cell whose formula is none
\* of the four recognized shapes (e.g. an IF(...) expression or a division)
\* with its placeholder cached value and records a diagnostic for it; it never
\* writes the sum of the references the formula contains
C12_UnrecognizedShapeKept ==
    (pc = "saved" /\ content.cached) =>
        \A q \in TableCells(sb.table) :
            UnrecognizedShape(content.rows[q[1]].cells[q[2]].formula) =>
                /\ content.rows[q[1]].cells[q[2]].value = PlaceholderValue(q)
                /\ ShapeFlagged(q)

\* the pass has run over IF(F10=0;0;F14/F10) in the year total column of an
\* expression row, with F10 = -490 and F14 = 300 cached before it, and has
\* written F10 + F14 + F10 = -680 over the placeholder 0; nothing is recorded
C12_Witness ==
    /\ pc = "saved"
    /\ content.cached
    /\ diagnostics = <<>>
    /\ Len(content.rows) >= 25
    /\ content.rows[25].kind = "expression"
    /\ content.rows[25].cells[6].formula =
           OfPrefix \o <<"I","F","(","F","1","0","=","0",";","0",";",
                         "F","1","4","/","F","1","0",")">>
    /\ UnrecognizedShape(content.rows[25].cells[6].formula)
    /\ PlaceholderValue(<<25, 6>>) = 0
    /\ content.rows[10].cells[6].value = -490
    /\ content.rows[14].cells[6].value = 300
    /\ content.rows[25].cells[6].value = -680

\* the registry writes of this build that name the code
WritesOf(code) == {i \in 1..Len(registered) : registered[i][1] = code}

\* C13: within one build each code is written to the Totals Registry at most
\* once: no later renderer call replaces registry[c] with a different row
\* index, also for a code that is both a Total-type category and a total
\* definition
C13_RegistryWriteOnce ==
    \A i \in 1..Len(registered) : WritesOf(registered[i][1]) = {i}

\* render_summary_totals_block (Trade) has registered G and
\* render_totals_formula has then written G again with the row of its own
\* total row, which the registry now holds
C13_Witness ==
    /\ pc = "built"
    /\ repo.has_categories_by_type
    /\ \E i, j \in WritesOf(<<"G">>) :
           /\ i < j
           /\ sb.table[registered[i][2]].kind = "totalsblock"
           /\ sb.table[registered[j][2]].kind = "total"
           /\ registered[i][2] < registered[j][2]
           /\ totals_row_by_category[<<"G">>] = registered[j][2]

\* the style names the table-cells carry
UsedStyles(rows) == {rows[q[1]].cells[q[2]].style : q \in TableCells(rows)}

CashPosName(d) == S_CASH \o <<d>> \o S_POS_CELL
CashNegName(d) == S_CASH \o <<d>> \o S_NEG_CELL
CashBaseName(d) == S_CASH \o <<d>> \o S_CELL

\* the positions of the cell styles of that name among the automatic styles
StylesNamed(auto, name) == {i \in 1..Len(auto) : auto[i].tag = "style" /\ auto[i].name = name}

\* the routing rules of a style: <<condition, applied style>> of its maps
RoutingRules(st) ==
    UNION {{<<pr[2], st.children[i].ref>> :
               pr \in {x \in st.children[i].attrs : x[1] = "condition"}} :
              i \in {j \in 1..Len(st.children) : st.children[j].tag = "map"}}

MapCount(st) == Cardinality({j \in 1..Len(st.children) : st.children[j].tag = "map"})

\* the meaning of a routing condition for the value v
ConditionHolds(condition, v) ==
    CASE condition = "value() < 0" -> v < 0
      [] condition = "value() >= 0" -> v >= 0
      [] OTHER -> FALSE

BaseRoutingAsClaimed(auto, d) ==
    /\ Cardinality(StylesNamed(auto, CashBaseName(d))) = 1
    /\ \A i \in StylesNamed(auto, CashBaseName(d)) :
           /\ MapCount(auto[i]) = 2
           /\ RoutingRules(auto[i]) = {<<"value() < 0", CashNegName(d)>>,
                                       <<"value() >= 0", CashPosName(d)>>}
           /\ \A v \in {-1, 0, 1} :
                  Cardinality({ru \in RoutingRules(auto[i]) :
                                  ConditionHolds(ru[1], v)}) = 1

\* C14: after materialisation, for every digit d, when both CASH<d>_POS_CELL
\* and CASH<d>_NEG_CELL are used by cells there is a base style CASH<d>_CELL
\* with exactly the two routing rules 'value() < 0' -> NEG and 'value() >= 0'
\* -> POS, every value routed by exactly one; when only one polarity (or
\* none) is used there is no base style CASH<d>_CELL
C14_BaseCashRouting ==
    (content.injections >= 1 /\ ~content.cached) =>
        \A k \in 1..10 :
            IF {CashPosName(DigitChars[k]), CashNegName(DigitChars[k])}
                   \subseteq UsedStyles(content.rows)
            THEN BaseRoutingAsClaimed(content.styles, DigitChars[k])
            ELSE StylesNamed(content.styles, CashBaseName(DigitChars[k])) = {}

\* materialised twice: CASH2 is used with both polarities and has its base
\* style, CASH0 is used with one polarity only and has none
C14_Witness ==
    /\ content.injections = 2
    /\ ~content.cached
    /\ {CashPosName("2"), CashNegName("2"), CashPosName("0")} \subseteq UsedStyles(content.rows)
    /\ CashNegName("0") \notin UsedStyles(content.rows)
    /\ BaseRoutingAsClaimed(content.styles, "2")
    /\ StylesNamed(content.styles, CashBaseName("0")) = {}

CashPosDs(d) == S_CASH \o <<d>> \o S_POS_DS
CashNegDs(d) == S_CASH \o <<d>> \o S_NEG_DS

\* every cell style of that name carries that data-style-name
DataStyleIs(auto, name, ds_name) ==
    \A i \in StylesNamed(auto, name) : auto[i].data_style = ds_name

\* C15: after materialisation the base style CASH<d>_CELL carries
\* data-style-name CASH<d>_POS_DS, and the POS and NEG cell styles carry
\* CASH<d>_POS_DS and CASH<d>_NEG_DS
C15_BaseDataStyle ==
    (content.injections >= 1 /\ ~content.cached) =>
        \A k \in 1..10 :
            /\ DataStyleIs(content.styles, CashBaseName(DigitChars[k]), CashPosDs(DigitChars[k]))
            /\ DataStyleIs(content.styles, CashPosName(DigitChars[k]), CashPosDs(DigitChars[k]))
            /\ DataStyleIs(content.styles, CashNegName(DigitChars[k]), CashNegDs(DigitChars[k]))

\* materialised once with both CASH0 polarities in use: the base style
\* CASH0_CELL is there with its two maps and no data-style-name, the POS and
\* NEG cell styles carry CASH0_POS_DS and CASH0_NEG_DS
C15_Witness ==
    /\ content.injections = 1
    /\ ~content.cached
    /\ StylesNamed(content.styles, CashPosName("0")) # {}
    /\ StylesNamed(content.styles, CashNegName("0")) # {}
    /\ DataStyleIs(content.styles, CashPosName("0"), CashPosDs("0"))
    /\ DataStyleIs(content.styles, CashNegName("0"), CashNegDs("0"))
    /\ \E i \in StylesNamed(content.styles, CashBaseName("0")) :
           /\ MapCount(content.styles[i]) = 2
           /\ content.styles[i].data_style = <<>>

\* the formula negates: stripped, it starts with '-' or contains '*-1'
Negates(formula) ==
    \/ StartsWith(UpperStr(Strip(formula)), <<"-">>)
    \/ Contains(UpperStr(Strip(formula)), Times1)

\* the root CASH<d> of the neutral style given (CASH0 when none is given)
NeutralRoot(style) ==
    IF style = <<>> THEN SubSeq(CASH0_CELL, 1, 5) ELSE SubSeq(UpperStr(style), 1, 5)

StampedAsClaimed(value, style, formula, cell) ==
    /\ cell.vtype = "float"
    /\ (formula = <<>> /\ value >= 0) => cell.style = NeutralRoot(style) \o S_POS_CELL
    /\ (formula = <<>> /\ value < 0) => cell.style = NeutralRoot(style) \o S_NEG_CELL
    /\ (formula # <<>> /\ Negates(formula)) => cell.style = NeutralRoot(style) \o S_NEG_CELL

\* the patched document has E1 and F1 as float cells with the stamped names
PatchedAsClaimed(res) ==
    /\ res.raised = ""
    /\ Len(res.content.rows) = 1
    /\ res.content.rows[1].cells[5].vtype = "float"
    /\ res.content.rows[1].cells[5].style = CASH0_POS_CELL
    /\ res.content.rows[1].cells[6].vtype = "float"
    /\ res.content.rows[1].cells[6].style = CASH0_NEG_CELL

\* C16: add_number_cell given a neutral CASH<d>_CELL style (or none) stamps
\* CASH<d>_POS_CELL on a literal >= 0 and CASH<d>_NEG_CELL on a literal < 0 or
\* a negating formula, every cell is value-type float, and apply_styles_bytes
\* returns the document with these names unchanged (E1 stays CASH0_POS_CELL,
\* F1 = E1*-1 stays CASH0_NEG_CELL)
C16_CashStamping ==
    /\ called.fn = "add_number_cell" =>
           StampedAsClaimed(called.args[1], called.args[2], called.args[3], called.result)
    /\ called.fn = "apply_styles_bytes" => PatchedAsClaimed(called.result)

\* apply_styles_bytes has been called on the document whose E1 and F1 were
\* stamped CASH0_POS_CELL and CASH0_NEG_CELL, and has ended with TypeError
C16_Witness ==
    /\ called.fn = "apply_styles_bytes"
    /\ called.args[1].cells[5].style = CASH0_POS_CELL
    /\ called.args[1].cells[5].value = 1234
    /\ called.args[1].cells[6].style = CASH0_NEG_CELL
    /\ called.args[1].cells[6].formula = OfPrefix \o <<"E","1","*","-","1">>
    /\ called.result.raised = "TypeError"

\* the StyleKey the naming convention gives a name, NoKey for a name that is
\* not of the forms NUM<d>_CELL, PCT<d>_CELL, CASH<d>_POS_CELL, CASH<d>_NEG_CELL
ConventionKey(name) ==
    LET Form(prefix, suffix) ==
            {k \in 1..10 : name = prefix \o <<DigitChars[k]>> \o suffix}
        KeyOf(kind, polarity, ks) ==
            [kind |-> kind, decimals |-> (CHOOSE k \in ks : TRUE) - 1,
             polarity |-> polarity, cell_style_name |-> name]
    IN  IF Form(S_NUM, S_CELL) # {} THEN KeyOf("number", "", Form(S_NUM, S_CELL))
        ELSE IF Form(S_PCT, S_CELL) # {} THEN KeyOf("percentage", "", Form(S_PCT, S_CELL))
        ELSE IF Form(S_CASH, S_POS_CELL) # {}
        THEN KeyOf("cash", "pos", Form(S_CASH, S_POS_CELL))
        ELSE IF Form(S_CASH, S_NEG_CELL) # {}
        THEN KeyOf("cash", "neg", Form(S_CASH, S_NEG_CELL))
        ELSE NoKey

\* C17: parse_style_name returns a StyleKey exactly for the names NUM<d>_CELL,
\* PCT<d>_CELL, CASH<d>_POS_CELL and CASH<d>_NEG_CELL with one digit <d>,
\* with the kind, decimals and polarity of the name; for every other name
\* (TEXT_CELL, a bare CASH<d>_CELL, NUMERIC_CELL, NUM12_CELL, a _BORDERED
\* name) it returns None and the registry ignores the name
C17_StyleNameParsing ==
    called.fn = "parse_style_name" =>
        /\ called.result.key = ConventionKey(called.args)
        /\ called.result._keys =
               IF ConventionKey(called.args) = NoKey THEN <<>>
               ELSE <<ConventionKey(called.args)>>

\* parse_style_name("NUMERIC_CELL") has returned a number key with decimals 0
\* and the registry holds it
C17_Witness ==
    /\ called.fn = "parse_style_name"
    /\ called.args = <<"N","U","M","E","R","I","C">> \o S_CELL
    /\ ConventionKey(called.args) = NoKey
    /\ called.result.key.kind = "number"
    /\ called.result.key.decimals = 0
    /\ Len(called.result._keys) = 1

\* the job selects the unsupported data source
SelectsPostgres(conn_str, db_kind) == create_repo(conn_str, db_kind) = "PostgresRepository"

\* C18: when the job selects the unsupported data source (dbKind 'postgres'
\* or a postgres-style connection string), create_repo itself fails with a
\* configuration error, before any repository query is issued and before any
\* row is rendered, and no output artifact is produced
C18_UnsupportedSourceFailsFast ==
    (called.fn = "initialise_ods" /\ SelectsPostgres(called.args[1], called.args[2])) =>
        /\ called.result.raised # ""
        /\ called.result.raised_by = "create_repo"
        /\ called.result.calls = <<>>

\* dbKind 'postgres' with a SQL Server connection string: create_repo has
\* returned a PostgresRepository, and initialise_ods has ended with the
\* NotImplementedError of the first repository method it called
C18_Witness ==
    /\ called.fn = "initialise_ods"
    /\ called.args = <<<<"S","e","r","v","e","r","=","s">>, S_postgres>>
    /\ called.result.repo = "PostgresRepository"
    /\ called.result.calls = <<"get_active_period">>
    /\ called.result.raised = "NotImplementedError"
    /\ called.result.raised_by = "get_active_period"

\* the rows a range formula SUM([.<c><a>:.<c><b>]) covers: those between its
\* two end rows, whichever comes first; no row for any other cell
CoveredRows(formula) ==
    LET After(m1) ==
            IF m1.ok /\ RefAt(formula, m1.next + 2).ok
            THEN Min(StrToInt(m1.row), StrToInt(RefAt(formula, m1.next + 2).row))
                 ..Max(StrToInt(m1.row), StrToInt(RefAt(formula, m1.next + 2).row))
            ELSE {}
    IN  IF StartsWith(formula, RangeOpen(TRUE))
        THEN After(RefAt(formula, Len(RangeOpen(TRUE)) + 1))
        ELSE {}

\* row k is the Category Total row of a category without cash codes
ZeroCodeTotal(table, k) ==
    /\ k > 1
    /\ table[k].kind = "cattotal"
    /\ table[k - 1].kind = "category"

\* C19: for a category with zero cash codes render_categories_and_summary
\* appends the heading row, the Category Total row and the spacer row and
\* registers the total row, and in every period column the SUM range of the
\* total cell covers no row: neither the total row itself nor the heading row
C19_ZeroCodeCategoryTotal ==
    \A k \in 1..Len(sb.table) :
        ZeroCodeTotal(sb.table, k) =>
            /\ k < Len(sb.table)
            /\ sb.table[k + 1].kind = "spacer"
            /\ sb.table[k].code # <<>> =>
                   \E i \in 1..Len(registered) : registered[i] = <<sb.table[k].code, k>>
            /\ \A col \in PeriodColumns(repo) :
                   CoveredRows(sb.table[k].cells[col].formula) = {}

\* the only Trade category has no cash code: its heading is row 6, its total
\* row 7 is registered, and the total cell of column D holds
\* SUM([.D7:.D6]), a range over the total row itself and the heading row
C19_Witness ==
    /\ pc = "built"
    /\ Len(sb.table) >= 8
    /\ ZeroCodeTotal(sb.table, 7)
    /\ sb.table[8].kind = "spacer"
    /\ totals_row_by_category[<<"A">>] = 7
    /\ sb.table[7].cells[FirstPeriodCol].formula = OfPrefix \o SumText(<<"D">>, 7, <<"D">>, 6)
    /\ CoveredRows(sb.table[7].cells[FirstPeriodCol].formula) = {6, 7}

\* the cells <<row, column>> within the rectangle spanned by two references
CellsBetween(m1, m2) ==
    (Min(StrToInt(m1.row), StrToInt(m2.row))..Max(StrToInt(m1.row), StrToInt(m2.row)))
    \X (Min(col_letters_to_index(m1.col), col_letters_to_index(m2.col))
         ..Max(col_letters_to_index(m1.col), col_letters_to_index(m2.col)))

\* the cells the references of a list of matches name
CellsNamed(matches) ==
    {<<StrToInt(matches[i].row), col_letters_to_index(matches[i].col)>> :
        i \in 1..Len(matches)}

\* the cells <<row, column>> a formula refers to: every cell of the range of
\* a SUM([.ref:.ref]), otherwise every cell reference in the text
References(formula) ==
    LET After(m1) ==
            IF m1.ok /\ RefAt(formula, m1.next + 2).ok
            THEN CellsBetween(m1, RefAt(formula, m1.next + 2))
            ELSE {}
    IN  IF StartsWith(formula, RangeOpen(TRUE))
        THEN After(RefAt(formula, Len(RangeOpen(TRUE)) + 1))
        ELSE CellsNamed(AddSubFindAll(formula, 1))

\* C20: every formula emitted by a renderer refers only to cells of strictly
\* earlier rows or to cells of its own row in strictly earlier columns; none
\* refers to its own cell, to a later column of its row or to a later row,
\* also when a total definition lists its own code as a source
C20_DependenciesPrecede ==
    \A q \in TableCells(sb.table) :
        \A ref \in References(sb.table[q[1]].cells[q[2]].formula) :
            PositionBefore(ref, q)

\* the total definition G lists G itself and A as sources:
\* render_totals_formula has written, in column D of G's total row k, a
\* formula whose first term is D<k>, the cell itself
C20_Witness ==
    /\ pc = "built"
    /\ \E k \in 1..Len(sb.table) :
           /\ sb.table[k].kind = "total"
           /\ sb.table[k].code = <<"G">>
           /\ totals_row_by_category[<<"G">>] = k
           /\ StartsWith(sb.table[k].cells[FirstPeriodCol].formula,
                         OfPrefix \o RefText(<<"D">>, k) \o <<"+">>)
           /\ <<k, FirstPeriodCol>> \in References(sb.table[k].cells[FirstPeriodCol].formula)

\* C30: apply_styles_bytes passes inject_content_styles only parameters it
\* accepts and never ends in an error, so save_cashflow always reaches the
\* value-cache pass: no run of save_cashflow fails, and the document it
\* returns has had its styles materialised and its values cached
C30_MaterializationCompletes ==
    /\ pc # "failed"
    /\ pc = "returned" => (content.injections >= 1 /\ content.cached)

\* save_cashflow has run on a built table of at least one value row and has
\* ended in the TypeError of apply_styles_bytes: nothing was materialised
\* and the value-cache pass was not reached
C30_Witness ==
    /\ pc = "failed"
    /\ Len(sb.table) > 4
    /\ ~(ApplyStylesKeywords \subseteq InjectorParameters)
    /\ content = NoContent

\* the section at which render_summary_after_categories is about to run on
\* fewer than two categories
SummaryOfFewCategories ==
    /\ pc \in {"trade_summary", "money_summary", "tax_summary"}
    /\ Len(get_categories(repo, CashTypeAt(pc))) < 2

\* C26: when the category list is empty or has one category,
\* render_summary_after_categories appends no row, leaves current_row_index()
\* unchanged and leaves the Totals Registry unchanged
C26_SummaryNoOp ==
    [][SummaryOfFewCategories =>
           /\ sb' = sb
           /\ current_row_index(sb') = current_row_index(sb)
           /\ totals_row_by_category' = totals_row_by_category]_vars

\* render_summary_after_categories has run on the single Trade category and
\* on the empty Money list: the build is past both and the table has the
\* Trade category's rows but no Summary header
C26_Witness ==
    /\ pc = "trade_totals"
    /\ Len(get_categories(repo, Trade)) = 1
    /\ Len(get_categories(repo, Money)) = 0
    /\ \E k \in 1..Len(sb.table) : sb.table[k].kind = "cattotal"
    /\ \A k \in 1..Len(sb.table) : sb.table[k].kind # "summaryhdr"

\* the positions of the '[' of a template that a ']' follows
TokenStarts(template) ==
    {lb \in 1..Len(template) :
        template[lb] = "[" /\ Find(template, <<"]">>, lb + 1) # 0}

\* the Name between the '[' at lb and the next ']'
NameAt(template, lb) ==
    Strip(SubSeq(template, lb + 1, Find(template, <<"]">>, lb + 1) - 1))

\* the distinct names of a template, each once, by first occurrence from the
\* left
NamesInOrder(template) ==
    LET Name(q) == NameAt(template, q[2])
    IN  FirstSeenOrder({<<1, lb>> : lb \in {x \in TokenStarts(template) :
                                               NameAt(template, x) # <<>>}}, Name)

\* the code of a Name by precedence: the repository's category-name lookup,
\* else the totals name -> code map, else the Name itself
CodeByPrecedence(r, name) ==
    CASE get_category_code_from_name(r, name) # <<>> ->
             get_category_code_from_name(r, name)
      [] get_category_code_from_name(r, name) = <<>> /\ TotalsByName(r, name) # <<>> ->
             TotalsByName(r, name)
      [] OTHER -> name

\* C24: render_expressions extracts each distinct [Name] token of a template
\* once, in first-seen left-to-right order, and resolves each Name by
\* precedence (repository category-name lookup, else totals name -> code map,
\* else the Name itself), independently of the other tokens of the template
C24_TokenResolution ==
    called.fn = "render_expressions" =>
        /\ called.result.tokens = NamesInOrder(Strip(called.args[2]))
        /\ Len(called.result.name_to_code) = Len(called.result.tokens)
        /\ \A k \in 1..Len(called.result.tokens) :
               called.result.name_to_code[k] =
                   CodeByPrecedence(called.args[1], called.result.tokens[k])

\* the template [nA]+[A] on a repository whose category nA has code A and
\* whose total G is named nA as well: two tokens, the first resolved by the
\* repository to A although the totals map has it, the second by itself
C24_Witness ==
    /\ called.fn = "render_expressions"
    /\ called.args[2] = <<"[","n","A","]","+","[","A","]">>
    /\ TotalsByName(called.args[1], <<"n","A">>) = <<"G">>
    /\ called.result.tokens = << <<"n","A">>, <<"A">> >>
    /\ called.result.name_to_code = << <<"A">>, <<"A">> >>

\* the cell reference of a Name's own code in a column, or 0 when the code is
\* not registered
OwnReference(r, name, col_letter, reg) ==
    IF CodeByPrecedence(r, name) \in DOMAIN reg /\ reg[CodeByPrecedence(r, name)] > 0
    THEN RefText(col_letter, reg[CodeByPrecedence(r, name)])
    ELSE <<"0">>

\* a template from position i on, every [Name] token replaced by the
\* reference of that Name's own code
RECURSIVE EachTokenReplaced(_, _, _, _, _)
EachTokenReplaced(r, template, i, col_letter, reg) ==
    IF i > Len(template) THEN <<>>
    ELSE IF i \in TokenStarts(template) /\ NameAt(template, i) # <<>>
    THEN OwnReference(r, NameAt(template, i), col_letter, reg)
             \o EachTokenReplaced(r, template, Find(template, <<"]">>, i + 1) + 1,
                                  col_letter, reg)
    ELSE <<template[i]>> \o EachTokenReplaced(r, template, i + 1, col_letter, reg)

\* the rows of the expressions, in order
ExpressionRowsOf(table) ==
    FirstSeenOrder({<<k, 1>> : k \in {x \in 1..Len(table) : table[x].kind = "expression"}},
                   LAMBDA q : q[1])

\* C28: for every expression template and output column, the formula text
\* written by render_expressions has no remaining [ ... ] token, and every
\* occurrence of a token [Name] is replaced by the cell reference (or 0) of
\* that Name's own resolved code, also for a token written with inner
\* whitespace and when the code of one Name is equal to another token's Name
C28_TokenSubstitution ==
    \A j \in 1..Len(ExpressionRowsOf(sb.table)) :
        \A col \in FirstPeriodCol..(FirstPeriodCol + PeriodCols(repo.years, repo.months) - 1) :
            LET formula == sb.table[ExpressionRowsOf(sb.table)[j]].cells[col].formula
            IN  /\ ~Contains(formula, <<"[">>)
                /\ formula = OfPrefix \o normalize_for_calc(
                       EachTokenReplaced(repo, Strip(repo.expressions[j].Expression), 1,
                                         _col_letter(col), totals_row_by_category))

\* render_expressions has written the row of the template [nA]+[A], where
\* nA has code A and the total named A has code G: both terms of the formula
\* in column D are the cell of G
C28_Witness ==
    /\ pc = "built"
    /\ Len(repo.expressions) = 1
    /\ repo.expressions[1].Expression = <<"[","n","A","]","+","[","A","]">>
    /\ CodeByPrecedence(repo, <<"n","A">>) = <<"A">>
    /\ CodeByPrecedence(repo, <<"A">>) = <<"G">>
    /\ {<<"A">>, <<"G">>} \subseteq DOMAIN totals_row_by_category
    /\ \E k \in 1..Len(sb.table) :
           /\ sb.table[k].kind = "expression"
           /\ sb.table[k].cells[FirstPeriodCol].formula =
                  OfPrefix \o RefText(<<"D">>, totals_row_by_category[<<"G">>])
                      \o <<"+">> \o RefText(<<"D">>, totals_row_by_category[<<"G">>])

\* the rows at which this build rendered the Category Total of a category
CategoryTotalRows(table, code) ==
    {m \in 1..Len(table) : table[m].kind = "cattotal" /\ table[m].code = code}

\* the formula has the reference as one of its "+"-joined terms
HasTerm(formula, ref) ==
    /\ StartsWith(formula, OfPrefix)
    /\ Contains(<<"+">> \o SubSeq(formula, Len(OfPrefix) + 1, Len(formula)) \o <<"+">>,
                <<"+">> \o ref \o <<"+">>)

\* the source codes of a total definition, stripped
SourcesOf(r, code) ==
    {Strip(get_category_total_codes(r, code)[i]) :
        i \in 1..Len(get_category_total_codes(r, code))}

\* C21: every source code of a total definition that names a category
\* rendered in this build (Trade, Money or Tax) is in the Totals Registry
\* when render_totals_formula builds the total's formula and contributes a
\* term to it; none is dropped because its section is rendered later
C21_RegistrationPrecedesReference ==
    pc = "built" =>
        \A k \in 1..Len(sb.table) :
            sb.table[k].kind = "total" =>
                \A sc \in SourcesOf(repo, sb.table[k].code) :
                    \A m \in CategoryTotalRows(sb.table, sc) :
                        \A col \in FirstPeriodCol..
                                   (FirstPeriodCol + PeriodCols(repo.years, repo.months) - 1) :
                            HasTerm(sb.table[k].cells[col].formula,
                                    RefText(_col_letter(col), m))

\* the total G has the Trade category A and the Tax category X as sources:
\* its row was written before the Tax section, the Category Total of X lies
\* below it, and its formula in column D is the cell of A alone
C21_Witness ==
    /\ pc = "built"
    /\ \E k \in 1..Len(sb.table) :
           /\ sb.table[k].kind = "total"
           /\ sb.table[k].code = <<"G">>
           /\ SourcesOf(repo, <<"G">>) = {<<"A">>, <<"X">>}
           /\ \E a \in CategoryTotalRows(sb.table, <<"A">>) :
                  /\ a < k
                  /\ sb.table[k].cells[FirstPeriodCol].formula = OfPrefix \o RefText(<<"D">>, a)
           /\ \E x \in CategoryTotalRows(sb.table, <<"X">>) :
                  /\ x > k
                  /\ totals_row_by_category[<<"X">>] = x

\* the style is the NEG variant of a cash style, bordered or not
NegVariant(style) ==
    /\ cash_root(style) # <<>>
    /\ UpperStr(style) \in {cash_root(style) \o S_NEG_CELL,
                            cash_root(style) \o S_NEG_CELL \o S_BORDERED}

\* the cell has a float cached value and a cash style
CashValued(cell) == cell.vtype = "float" /\ cash_root(cell.style) # <<>>

\* C22: in the final document every cell with a float cached value and a
\* cash style (base, POS or NEG, bordered or not) carries the NEG variant if
\* and only if its cached value is < 0, in month columns as well as in
\* year-total columns; no formula cell keeps the polarity guessed from its
\* formula text when the cached value has the other sign or is 0
C22_SignFromCachedValue ==
    (pc = "saved" /\ content.cached) =>
        \A q \in TableCells(content.rows) :
            CashValued(content.rows[q[1]].cells[q[2]]) =>
                (NegVariant(content.rows[q[1]].cells[q[2]].style)
                     <=> content.rows[q[1]].cells[q[2]].value < 0)

\* the value-cache pass has run on a document with an expression row whose
\* formula in the first month column ends with *-1: the cell is still
\* CASH2_NEG_CELL, the polarity guessed at construction, with cached value 0
C22_Witness ==
    /\ pc = "saved"
    /\ content.cached
    /\ \E k \in 1..Len(content.rows) :
           /\ content.rows[k].kind = "expression"
           /\ ~is_totals_col(FirstPeriodCol, Len(repo.months))
           /\ EndsWith(content.rows[k].cells[FirstPeriodCol].formula, Times1)
           /\ content.rows[k].cells[FirstPeriodCol].style =
                  <<"C","A","S","H","2">> \o S_NEG_CELL
           /\ content.rows[k].cells[FirstPeriodCol].vtype = "float"
           /\ content.rows[k].cells[FirstPeriodCol].value = 0

\* the cached value the document has at <<row, column>>, 0 where there is no
\* cell or no value
ValueAt(rows, ref) ==
    IF ref[1] < 1 \/ ref[1] > Len(rows) THEN 0
    ELSE IF find_cell_by_index(rows[ref[1]], ref[2]) = 0 THEN 0
    ELSE OwnValue(rows[ref[1]].cells[find_cell_by_index(rows[ref[1]], ref[2])]).v

\* the cached values of a set of cells, summed
RECURSIVE SumOfCells(_, _)
SumOfCells(rows, refs) ==
    IF refs = {} THEN 0
    ELSE LET ref == CHOOSE x \in refs : TRUE
         IN  ValueAt(rows, ref) + SumOfCells(rows, refs \ {ref})

\* SUM([.ref:.ref]) over one row or down one column, with or without *-1
RangeShape(formula) ==
    /\ StartsWith(formula, RangeOpen(TRUE))
    /\ References(formula) # {}
    /\ \/ Cardinality({ref[1] : ref \in References(formula)}) = 1
       \/ Cardinality({ref[2] : ref \in References(formula)}) = 1

SuffixFactor(formula) == IF EndsWith(formula, Times1) THEN -1 ELSE 1

\* a signed list of references A1+B2-C3: nothing but letters, digits, + and -
SignedList(formula) ==
    /\ StartsWith(formula, OfPrefix)
    /\ Len(formula) > Len(OfPrefix)
    /\ \A i \in (Len(OfPrefix) + 1)..Len(formula) :
           IsLetter(formula[i]) \/ IsDigit(formula[i]) \/ formula[i] \in {"+", "-"}
    /\ Len(AddSubFindAll(formula, 1)) > 0

\* the signed sum of the cached values the matches refer to
RECURSIVE SignedSum(_, _, _)
SignedSum(rows, matches, k) ==
    IF k > Len(matches) THEN 0
    ELSE (IF matches[k].sign = "-" THEN -1 ELSE 1)
             * ValueAt(rows, <<StrToInt(matches[k].row), col_letters_to_index(matches[k].col)>>)
         + SignedSum(rows, matches, k + 1)

ShapeValueAsClaimed(rows, cell) ==
    /\ RangeShape(cell.formula) =>
           /\ cell.vtype = "float"
           /\ cell.value = SuffixFactor(cell.formula)
                               * SumOfCells(rows, References(cell.formula))
    /\ SignedList(cell.formula) =>
           /\ cell.vtype = "float"
           /\ cell.value = SignedSum(rows, AddSubFindAll(cell.formula, 1), 1)

\* the cell at q has a formula and every cell it refers to comes before q in
\* the document, so that its cached value is there when q is processed
ReadsPredecessors(formula, q) ==
    /\ formula # <<>>
    /\ \A ref \in References(formula) : PositionBefore(ref, q)

\* C23: for a formula cell the value-cache pass processes, whose references
\* are to cells before it, SUM over a range
\* on one row yields the sum of the cached values of all cells of the range;
\* SUM down one column, SUM([.X<a>:.X<b>]) with optional *-1, yields the sum
\* of the cached values of all rows a..b of the column, times -1 with the
\* suffix, interior rows included; a signed list A1+B2-C3 yields the signed
\* sum of the referenced cached values
C23_ShapeSemantics ==
    (pc = "saved" /\ content.cached) =>
        \A q \in TotalsColumnCells(content.rows, Len(repo.months)) :
            ReadsPredecessors(content.rows[q[1]].cells[q[2]].formula, q) =>
                ShapeValueAsClaimed(content.rows, content.rows[q[1]].cells[q[2]])

\* the value-cache pass has processed the year total of a Category Total row
\* whose formula is a SUM down three rows with the suffix *-1: the cached
\* value is the sum of the two end rows, not negated, and the interior row,
\* which is not 0, is left out
C23_Witness ==
    /\ pc = "saved"
    /\ content.cached
    /\ \E k \in 1..Len(content.rows) :
           LET col == FirstPeriodCol + Len(repo.months)
               cell == content.rows[k].cells[col]
           IN  /\ content.rows[k].kind = "cattotal"
               /\ is_totals_col(col, Len(repo.months))
               /\ RangeShape(cell.formula)
               /\ CoveredRows(cell.formula) = (k - 3)..(k - 1)
               /\ SuffixFactor(cell.formula) = -1
               /\ ValueAt(content.rows, <<k - 2, col>>) # 0
               /\ cell.value = ValueAt(content.rows, <<k - 3, col>>)
                                   + ValueAt(content.rows, <<k - 1, col>>)

\* the style names the cells of the rows carry
CellStyleNames(rows) ==
    {rows[q[1]].cells[q[2]].style : q \in TableCells(rows)} \ {<<>>}

\* C27: in the final document every table:style-name carried by a cell names
\* a style that exists in the document's automatic styles; in particular the
\* CASH<d>_NEG_CELL or CASH<d>_POS_CELL (or _BORDERED clone) that the
\* value-cache pass stamps on a year-total cell was materialized even if no
\* cell carried that polarity at construction time
C27_CellStylesDefined ==
    (pc = "saved" /\ content.cached) =>
        \A name \in CellStyleNames(content.rows) :
            FindCellStyle(content.styles, name) # 0

\* the value-cache pass has stamped CASH2_NEG_CELL on the year total of an
\* expression row whose cached value is below 0; no cell of the built table
\* carried that name, and the automatic styles have no such style
C27_Witness ==
    /\ pc = "saved"
    /\ content.cached
    /\ \E k \in 1..Len(content.rows) :
           LET col == FirstPeriodCol + Len(repo.months)
           IN  /\ content.rows[k].kind = "expression"
               /\ is_totals_col(col, Len(repo.months))
               /\ content.rows[k].cells[col].value < 0
               /\ content.rows[k].cells[col].style = <<"C","A","S","H","2">> \o S_NEG_CELL
               /\ sb.table[k].cells[col].style = <<"C","A","S","H","2">> \o S_POS_CELL
               /\ <<"C","A","S","H","2">> \o S_NEG_CELL \notin CellStyleNames(sb.table)
               /\ FindCellStyle(content.styles, <<"C","A","S","H","2">> \o S_NEG_CELL) = 0

\* the positions, in the month list, of the months of a year for which the
\* balance sheet has an entry of the asset
MonthsWithEntry(r, code, year_num) ==
    {i \in 1..Len(r.months) :
        \E e \in 1..Len(r.balance_sheet) :
            /\ r.balance_sheet[e].AssetCode = code
            /\ r.balance_sheet[e].YearNumber = year_num
            /\ r.balance_sheet[e].MonthNumber = r.months[i]}

\* the greatest element of a non-empty set of numbers
Greatest(S) == CHOOSE x \in S : \A y \in S : y <= x

\* the year totals of the asset row k: a reference to the cell, in the same
\* row, of the last month with an entry, or the literal 0
AssetRowAsClaimed(table, k, r) ==
    \A y_idx \in 1..Len(r.years) :
        LET first == FirstPeriodCol + (y_idx - 1) * (Len(r.months) + 1)
            cell == table[k].cells[first + Len(r.months)]
            with_entry == MonthsWithEntry(r, table[k].code, r.years[y_idx])
        IN  /\ ~Contains(cell.formula, SumOpen)
            /\ with_entry = {} => (cell.formula = <<>> /\ cell.value = 0)
            /\ with_entry # {} =>
                   cell.formula =
                       OfPrefix \o RefText(_col_letter(first + Greatest(with_entry) - 1), k)

\* the period cells of the Capital row k: SUM over the asset rows, which are
\* the rows from the first asset row to the row above k
CapitalRowAsClaimed(table, k, r) ==
    LET assets == {a \in 1..Len(table) : table[a].kind = "asset"}
    IN  /\ assets # {}
        /\ \A col \in FirstPeriodCol..(FirstPeriodCol + PeriodCols(r.years, r.months) - 1) :
               /\ table[k].cells[col].formula =
                      OfPrefix \o SumText(_col_letter(col), k - Cardinality(assets),
                                          _col_letter(col), k - 1)
               /\ CoveredRows(table[k].cells[col].formula) = assets

\* C25: for every asset row and year the year-total cell is a same-row
\* reference to the cell of the last month (in month order) of that year that
\* has an entry, and a literal 0 when the year has none, never a SUM; each
\* period cell of the Capital row is SUM over exactly the asset rows of the
\* section, without the section header and the Capital row itself
C25_BalanceSheetRows ==
    \A k \in 1..Len(sb.table) :
        /\ sb.table[k].kind = "asset" => AssetRowAsClaimed(sb.table, k, repo)
        /\ sb.table[k].kind = "capital" => CapitalRowAsClaimed(sb.table, k, repo)

\* render_balance_sheet has written the rows of the assets K and L and the
\* Capital row: K has entries for months 9 and 3 of year 1, listed in that
\* order, and none in year 2; its year totals are L<k> and the literal 0, and
\* the Capital row sums rows k and k+1
C25_Witness ==
    /\ pc = "built"
    /\ repo.years = <<1, 2>>
    /\ Len(repo.balance_sheet) > 2
    /\ repo.balance_sheet[1].MonthNumber = 9
    /\ repo.balance_sheet[2].MonthNumber = 3
    /\ \E k \in 1..Len(sb.table) :
           /\ sb.table[k].kind = "asset"
           /\ sb.table[k].code = <<"K">>
           /\ MonthsWithEntry(repo, <<"K">>, 2) = {}
           /\ sb.table[k].cells[FirstPeriodCol + Len(repo.months)].formula =
                  OfPrefix \o RefText(<<"L">>, k)
           /\ sb.table[k].cells[FirstPeriodCol + 2 * Len(repo.months) + 1].formula = <<>>
           /\ sb.table[k + 1].kind = "asset"
           /\ sb.table[k + 2].kind = "capital"
           /\ sb.table[k + 2].cells[FirstPeriodCol].formula =
                  OfPrefix \o SumText(<<"D">>, k, <<"D">>, k + 1)

(***************************************************************************)
(* C29  Grid alignment of value rows                                       *)
(***************************************************************************)
\* the rows that carry period values; the rows of render_summary_totals_block
\* hold a code, a description and a marker only and are not among them
ValueRowKinds ==
    {"code", "cattotal", "summary", "periodtotal", "total", "expression",
     "bank", "banktotal", "vatrecurrence", "vatperiod", "asset", "capital"}

IsNumericCell(cell) == cell.tag = "cell" /\ cell.vtype = "float" /\ ~cell.text

\* the 1-based column of the cell that ends the year block of a year index
YearTotalColumn(month_count, year_index) ==
    cols_for_year_block(month_count, year_index)[2] + 1

\* three reserved cells, then Y*(M+1) numeric cells, the last of each year
\* block in a totals column
GridAligned(row, r) ==
    /\ Len(row.cells) = 3 + Len(r.years) * (Len(r.months) + 1)
    /\ \A k \in 4..Len(row.cells) : IsNumericCell(row.cells[k])
    /\ \A yi \in 0..(Len(r.years) - 1) :
          /\ is_totals_col(YearTotalColumn(Len(r.months), yi), Len(r.months))
          /\ YearTotalColumn(Len(r.months), yi) <= Len(row.cells)

\* C29: every row of the cash-flow table that carries period values
\* (cash-code rows, category totals, summary and period-total rows,
\* totals-of-totals, expressions, bank balances, VAT recurrence rows, VAT
\* monthly rows, balance-sheet rows) has, after its three reserved cells,
\* exactly Y*(M+1) numeric cells for Y years and M months, so that each
\* year's total cell sits in a column accepted by is_totals_col, whatever the
\* number of VAT recurrence periods per year.
C29_GridAlignment ==
    \A k \in 1..Len(sb.table) :
        sb.table[k].kind \in ValueRowKinds => GridAligned(sb.table[k], repo)

\* a built table with VAT recurrence rows whose year has a number of
\* recurrence periods other than the number of months
C29_Witness ==
    /\ pc = "built"
    /\ repo.include_vat_details
    /\ \E y \in 1..Len(repo.years) :
          Len(OfYear(repo.vat_recurrence, repo.years[y])) # Len(repo.months)
    /\ \E k \in 1..Len(sb.table) : sb.table[k].kind = "vatrecurrence"

====
